---- MODULE Spec2Model ----
(***************************************************************************)
(* Model of Code/GraphMol/FileParsers/MolFileParser.cpp: the MDL molfile   *)
(* parser MolDataStreamToMol with its V2000 and V3000 drivers.             *)
(*                                                                         *)
(* The input stream is not stored: every getLine draws the next physical   *)
(* line from the alphabet of the decoder that reads it, so a behaviour of  *)
(* the model is one run of the parser on one input stream.  A line is      *)
(* represented by the fields its decoder extracts from the text (after     *)
(* toInt / substr), the stream by its eofbit.  A throw unwinds the frame   *)
(* of MolDataStreamToMol in the step that raises it: the handler that      *)
(* applies runs, the locals are gone, and what was allocated and not       *)
(* deleted stays allocated.                                                *)
(***************************************************************************)
EXTENDS Integers, Sequences, FiniteSets, TLC

\* ------------------------------------------------------------------ bounds
MaxAtoms == 2      \* largest atom count a counts line / COUNTS record declares
MaxBonds == 1      \* largest bond count a counts line / COUNTS record declares
MaxProps == 2      \* property records dispatched by the V2000 property loop
MaxEnt   == 1      \* entries carried by one 'M  xxx' record
MaxSkip  == 2      \* V3000 lines skipped (SGROUP, LINKNODE, unknown blocks)

\* -0xDEADBEEF evaluated in 32-bit arithmetic: 0xDEADBEEF is an unsigned
\* literal, its negation is 2^32 - 3735928559, which fits an int.
MAGIC == 559038737

VARIABLES
  pc,                \* position in MolDataStreamToMol
  exc,               \* exception raised to the caller: "none" or its kind
  eof,               \* inStream->eof()
  line,              \* increase of the caller's line counter
  reads,             \* getLine calls made on the stream
  delivered,         \* lines the stream held for those calls
  sanitize, removeHs,\* the caller's flags
  res,               \* the molecule: "none", "live", "destroyed", "returned"
  resDeletes,        \* number of 'delete res' executed on the parsed molecule
  conf,              \* the conformer: "none", "pending", "attached", "released"
  confDeletes,       \* number of 'delete conf' executed
  leaked,            \* objects under construction dropped by a throw
  ctabVersion, nAtoms, nBonds, nSgroups, n3DConstraints,
  i,                 \* loop counter of the running block
  atoms, bonds,      \* the molecule's atoms and bonds
  bookmarks,         \* V3000 atom bookmarks: bookmarks[k] is the molIdx of atom k
  confPos,           \* number of positions the conformer holds
  needsScan,         \* molecule property _NeedsQueryScan
  chiralityPossible, fileComplete, firstChargeLine,
  calls,             \* post-parse collaborator calls, in order
  h,                 \* history of the run (what the input contained)
  input, acceptSpaces,\* arguments of a call of a helper or of a decoder
  called,            \* the function called, "none" before the call
  result             \* what the call gave

vars == <<pc, exc, eof, line, reads, delivered, sanitize, removeHs, res,
          resDeletes, conf, confDeletes, leaked, ctabVersion, nAtoms, nBonds, nSgroups,
          n3DConstraints, i, atoms, bonds, bookmarks, confPos, needsScan,
          chiralityPossible, fileComplete, firstChargeLine, calls, h, input,
          acceptSpaces, called, result>>

flagVars   == <<sanitize, removeHs>>
convVars   == <<input, acceptSpaces, called, result>>
fixedVars  == <<flagVars, convVars>>
countVars  == <<ctabVersion, nAtoms, nBonds, nSgroups, n3DConstraints>>
molVars    == <<atoms, bonds, bookmarks, confPos, needsScan>>
ownVars    == <<res, resDeletes, conf, confDeletes, leaked>>
localVars  == <<chiralityPossible, fileComplete, firstChargeLine, i>>
frameVars  == <<countVars, molVars, localVars>>

\* ------------------------------------------------------------- small helpers
SeqsUpTo(S, n) == UNION {[1..k -> S] : k \in 0..n}

\* ------------------------------------------------------------- conversion
\* A field is the sequence of its characters.  atoi skips leading blanks and
\* converts the digits that follow, up to the first other character; it gives
\* 0 when there is none.  trim_copy removes the blanks of both ends.
\* lexical_cast<int> throws unless the whole text is a number.
MaxField == 3
Chars == {" ", "0", "1", "a"}
Fields == SeqsUpTo(Chars, MaxField)
NoResult == [threw |-> FALSE, val |-> 0]
Returns(v) == [threw |-> FALSE, val |-> v]
bad_lexical_cast == [threw |-> TRUE, val |-> 0]

IsDigit(c) == c \in {"0", "1"}
DigitValue(c) == IF c = "1" THEN 1 ELSE 0

RECURSIVE SkipBlanks(_)
SkipBlanks(s) ==
  IF s # <<>> /\ Head(s) = " " THEN SkipBlanks(Tail(s)) ELSE s

RECURSIVE Digits(_, _)
Digits(s, acc) ==
  IF s # <<>> /\ IsDigit(Head(s))
    THEN Digits(Tail(s), 10 * acc + DigitValue(Head(s)))
    ELSE acc

Reverse(s) == [k \in 1..Len(s) |-> s[Len(s) + 1 - k]]

atoi(s) == Digits(SkipBlanks(s), 0)

trim_copy(s) == Reverse(SkipBlanks(Reverse(SkipBlanks(s))))

lexical_cast(s) ==
  IF s # <<>> /\ \A k \in 1..Len(s) : IsDigit(s[k])
    THEN Returns(Digits(s, 0))
    ELSE bad_lexical_cast

\* stripSpacesAndCast<int>, lines 50-58.
stripSpacesAndCast(in, spaces) ==
  LET trimmed == trim_copy(in)
  IN IF spaces /\ trimmed = <<>> THEN Returns(0) ELSE lexical_cast(trimmed)

\* toInt, lines 60-68: input[0] of the empty string is its terminator.
toInt(in, spaces) ==
  LET r == atoi(in)
  IN IF r = 0 /\ ~spaces /\ in # <<>> /\ Head(in) = " "
          /\ Len(trim_copy(in)) = 0
       THEN bad_lexical_cast
       ELSE Returns(r)

\* ------------------------------------------------------------------ stream
\* getLine on a stream whose eofbit is set yields the empty string and leaves
\* the bit set; otherwise the line drawn is followed by a newline (e = FALSE)
\* or it is the last text of the stream (e = TRUE sets the eofbit; with the
\* empty line this is a read at end-of-file).
StreamGives(ln, e, empty) == eof => (ln = empty /\ e)

\* The number of lines the stream gives up to one getLine call: none once the
\* eofbit is set, and none when the call finds no character left (it yields
\* the empty string and sets the eofbit).
Delivered(ln, e, empty) == IF eof \/ (e /\ ln = empty) THEN 0 ELSE 1

\* ----------------------------------------------------------------- queries
NoQuery == [op |-> "none", desc |-> "", val |-> 0, neg |-> FALSE, kids |-> <<>>]
Leaf(d, v, n) == [op |-> "leaf", desc |-> d, val |-> v, neg |-> n, kids |-> <<>>]
AndQuery(a, b) == [op |-> "and", desc |-> "AtomAnd", val |-> 0, neg |-> FALSE,
                   kids |-> <<a, b>>]

\* -------------------------------------------------------------------- Init
NoHistory ==
  [resetCount |-> 0,          \* executions of the charge-reset loop
   lastChg    |-> <<>>,       \* atom (1-based) -> charge of the last CHG entry naming it
   chgSum     |-> 0,          \* sum of the charge values of all CHG entries applied
   chgSeen    |-> FALSE,      \* an 'M  CHG' record was dispatched
   chgDup     |-> FALSE,      \* a CHG entry named an atom an earlier entry named
   radSeen    |-> FALSE,      \* an 'M  RAD' record was dispatched
   nprops     |-> 0,          \* property records dispatched by the loop
   nskip      |-> 0,          \* V3000 lines skipped
   mEndRead   |-> FALSE,      \* 'M  END' was read as the terminator
   dollarRead |-> FALSE,      \* a '$$$$' line was read as a record
   ver        |-> "unread",   \* version field of the counts line
   rerun      |-> <<0, 0>>,   \* nSgroups, n3DConstraints of a second run
   blocks     |-> 0,          \* unknown V3000 blocks skipped to their END
   tailThrow  |-> "",         \* line on which V3Tail threw
   blockThrow |-> "",         \* line on which V3SkipBlock threw
   sgEndSeen  |-> FALSE,      \* the SGROUP loop read 'END SGROUP'
   sgLeft     |-> "no",       \* the SGROUP loop was left: "atEnd", "elsewhere"
   rgpOut     |-> FALSE,      \* an RGP entry named an index outside 1..nAtoms
   unrecognized |-> FALSE,    \* the last property line read was 'M  xxx'
                              \* not dispatched, 'G ...' or 'S  SKP'
   nsegs      |-> 0,          \* V3000 segments read that end with '-'
   dollarAt   |-> 0,          \* value of 'reads' after that '$$$$' line
   badBond    |-> FALSE,      \* a bond line named a missing atom or one atom twice
   magicSeen  |-> FALSE,      \* an 'M  RBC' entry with count -2 was applied
   hRemoved   |-> 0,          \* atoms removed by removeHs
   declAtoms  |-> 0,          \* nAtoms of the counts line / COUNTS record
   declBonds  |-> 0,          \* nBonds of the counts line / COUNTS record
   dropIn     |-> "none",     \* decoder that threw with an object under construction
   confMade   |-> FALSE,      \* 'new Conformer' has run
   aliasRead  |-> "none",     \* line the last pass of the property loop read
                              \* after an 'A  idx' line
   aliasText  |-> "none",     \* text that pass stored as molFileAlias
   aliasAtom  |-> 0,          \* atom (1-based) it stored the text on
   ntok       |-> 0]          \* tokens of the COUNTS record (0: none read)

Init ==
  /\ pc = "name" /\ exc = "none" /\ eof = FALSE /\ line = 0 /\ reads = 0
  /\ delivered = 0
  /\ sanitize \in BOOLEAN /\ removeHs \in BOOLEAN
  /\ res = "none" /\ resDeletes = 0 /\ conf = "none" /\ confDeletes = 0
  /\ leaked = {}
  /\ ctabVersion = 2000 /\ nAtoms = 0 /\ nBonds = 0
  /\ nSgroups = 0 /\ n3DConstraints = 0 /\ i = 0
  /\ atoms = <<>> /\ bonds = <<>> /\ bookmarks = <<>> /\ confPos = 0
  /\ needsScan = FALSE
  /\ chiralityPossible = FALSE /\ fileComplete = FALSE
  /\ firstChargeLine = TRUE
  /\ calls = <<>> /\ h = NoHistory
  /\ input = <<>> /\ acceptSpaces = FALSE /\ called = "none"
  /\ result = NoResult

\* ------------------------------------------------------------- exceptions
\* PRECONDITION, RANGE_CHECK and ASSERT_INVARIANT raise Invar::Invariant, which
\* is not a FileParseException; toInt raises boost::bad_lexical_cast.
InvariantViolation == "Invariant"
BadLexicalCast     == "BadCast"

\* The frame of MolDataStreamToMol is unwound: its locals, and the pointers
\* through which the molecule's content was reached, no longer exist.
Unwound ==
  /\ ctabVersion' = 2000 /\ nAtoms' = 0 /\ nBonds' = 0
  /\ nSgroups' = 0 /\ n3DConstraints' = 0 /\ i' = 0
  /\ atoms' = <<>> /\ bonds' = <<>> /\ bookmarks' = <<>> /\ confPos' = 0
  /\ needsScan' = FALSE
  /\ chiralityPossible' = FALSE /\ fileComplete' = FALSE
  /\ firstChargeLine' = TRUE

\* catch (FileParseException &e) of line 1764: delete res, delete conf if it
\* is still held, rethrow.
CatchFileParseException ==
  /\ res' = "destroyed" /\ resDeletes' = resDeletes + 1
  /\ IF conf = "pending"
       THEN conf' = "released" /\ confDeletes' = confDeletes + 1
       ELSE UNCHANGED <<conf, confDeletes>>

\* No handler applies: nothing is released.
NoHandler == UNCHANGED <<res, resDeletes, conf, confDeletes>>

\* A throw inside the try block of lines 1735-1763; dropped are the objects
\* the throwing decoder had created and not yet handed over or deleted.
ThrowInTry(kind, dropped) ==
  /\ pc' = "raised" /\ exc' = kind
  /\ leaked' = leaked \cup dropped
  /\ IF kind = "FileParse" THEN CatchFileParseException ELSE NoHandler
  /\ Unwound

\* 'if(res) delete res;' followed by a throw, outside the try block.
DeleteResAndThrow(kind) ==
  /\ pc' = "raised" /\ exc' = kind
  /\ res' = "destroyed" /\ resDeletes' = resDeletes + 1
  /\ UNCHANGED <<conf, confDeletes, leaked>>
  /\ Unwound

\* The throw of line 1665 (counts line too short): nothing is released.
ThrowCountsTooShort ==
  /\ pc' = "raised" /\ exc' = "FileParse"
  /\ NoHandler /\ UNCHANGED leaked
  /\ Unwound

\* ------------------------------------------------- MolDataStreamToMol: header
\* mol name: at end-of-file the function returns NULL before allocating.
ReadName ==
  /\ pc = "name"
  /\ \E e \in BOOLEAN, d \in 0..1 :
       /\ ~e => d = 1
       /\ eof' = e
       /\ delivered' = delivered + d
       /\ IF e THEN pc' = "null" /\ res' = res
               ELSE pc' = "info" /\ res' = "live"
  /\ line' = line + 1 /\ reads' = reads + 1
  /\ UNCHANGED <<exc, fixedVars, resDeletes, conf, confDeletes, leaked, frameVars,
                 calls, h>>

\* info and comments lines: two getLine calls, neither tests the eofbit.
ReadInfoAndComments ==
  /\ pc = "info"
  /\ \E e \in BOOLEAN, d \in 0..2 :
       /\ eof => d = 0
       /\ d < 2 => e
       /\ eof' = (eof \/ e)
       /\ delivered' = delivered + d
  /\ line' = line + 2 /\ reads' = reads + 2
  /\ pc' = "counts"
  /\ UNCHANGED <<exc, fixedVars, ownVars, frameVars, calls, h>>

\* The counts line (header line 4) as MolDataStreamToMol decodes it.
\*   k = "short":  fewer than 6 characters (the empty line included)
\*   k = "badint": columns 0..6 hold an all-blank count, toInt throws
\*   k = "ok":     na, nb and the version field ver:
\*       "none"    the line has at most 35 characters
\*       "invalid" more than 35 characters, but fewer than 39 or no 'V' at 34
\*       "V2000", "V3000", "Vother" the text of columns 34..39
EmptyCounts == [k |-> "short", na |-> 0, nb |-> 0, ver |-> "none"]
CountsLines ==
  {EmptyCounts, [k |-> "badint", na |-> 0, nb |-> 0, ver |-> "none"]}
  \cup [k : {"ok"}, na : 0..MaxAtoms, nb : 0..MaxBonds,
        ver : {"none", "invalid", "V2000", "V3000", "Vother"}]

\* The version test of lines 1717-1732: a line of at most 35 characters keeps
\* ctabVersion = 2000; a longer one must hold 'V2000' or 'V3000' at column 34.
\* The variant lets every version text pass.
VersionAccepted_Any(ver) == TRUE

VersionAccepted(ver) == ver \in {"none", "V2000", "V3000"}

\* counts line and version dispatch.
ReadCountsLine ==
  /\ pc = "counts"
  /\ line' = line + 1 /\ reads' = reads + 1
  /\ \E ln \in CountsLines, e \in BOOLEAN :
       /\ StreamGives(ln, e, EmptyCounts)
       /\ eof' = (eof \/ e)
       /\ delivered' = delivered + Delivered(ln, e, EmptyCounts)
       /\ CASE ln.k = "short" -> ThrowCountsTooShort /\ h' = h
            [] ln.k = "badint" -> DeleteResAndThrow("FileParse") /\ h' = h
            [] ln.k = "ok" /\ ~VersionAccepted(ln.ver) ->
                 /\ DeleteResAndThrow("FileParse")
                 /\ h' = [h EXCEPT !.ver = ln.ver]
            [] OTHER ->
                 /\ nAtoms' = ln.na /\ nBonds' = ln.nb
                 /\ ctabVersion' = IF ln.ver = "V3000" THEN 3000 ELSE 2000
                 /\ h' = [h EXCEPT !.declAtoms = ln.na, !.declBonds = ln.nb,
                                  !.ver = ln.ver]
                 /\ pc' = "dispatch"
                 /\ UNCHANGED <<exc, ownVars, nSgroups, n3DConstraints, molVars,
                                localVars>>
  /\ UNCHANGED <<fixedVars, calls>>

\* ------------------------------------------- MolDataStreamToMol: try block
\* Entry of the try block: the V2000 / V3000 branch and its first checks.
Dispatch ==
  /\ pc = "dispatch"
  /\ IF ctabVersion = 2000
       THEN IF nAtoms <= 0
              THEN ThrowInTry("FileParse", {}) /\ h' = h
              ELSE /\ conf' = "pending" /\ confPos' = nAtoms
                   /\ h' = [h EXCEPT !.confMade = TRUE]
                   /\ i' = 0 /\ pc' = "atoms"
                   /\ UNCHANGED <<exc, res, resDeletes, confDeletes, leaked,
                                  countVars, atoms, bonds, bookmarks, needsScan,
                                  chiralityPossible, fileComplete, firstChargeLine>>
       ELSE IF nAtoms # 0 \/ nBonds # 0
              THEN ThrowInTry("FileParse", {}) /\ h' = h
              ELSE /\ pc' = "v3begin" /\ h' = h
                   /\ UNCHANGED <<exc, ownVars, frameVars>>
  /\ UNCHANGED <<eof, line, reads, delivered, fixedVars, calls>>

\* ------------------------------------------------------------ V2000 atoms
\* An atom line: k = "short" has fewer than 34 characters (the empty line
\* included); otherwise symb is the text of columns 31..34 and chg the charge
\* code of columns 36..39.
EmptyAtomLine == [k |-> "short", symb |-> "C", chg |-> 0]
AtomLines ==
  {EmptyAtomLine, [k |-> "ok", symb |-> "C", chg |-> 0],
   [k |-> "ok", symb |-> "C", chg |-> 3], [k |-> "ok", symb |-> "H", chg |-> 0]}

\* PeriodicTable::getAtomicNumber on the symbols of the alphabet.
AtomicNumber(symb) == CASE symb = "H" -> 1 [] symb = "C" -> 6 [] OTHER -> 0

\* PeriodicTable::getAtomicWeight, in thousandths of a mass unit.
AtomicWeight(num) == CASE num = 1 -> 1008 [] num = 6 -> 12011 [] OTHER -> 0

\* 'new Atom' / 'new Atom(num)' and 'new QueryAtom(num)': an atom without
\* charge, mass tag, no-implicit flag or property molFileAlias (hasAlias tells
\* that the property is set); the query atom matches its number.
NewAtom(num) ==
  [num |-> num, chg |-> 0, q |-> NoQuery, mass |-> 0, hasMassQuery |-> FALSE,
   noImplicit |-> FALSE, hasAlias |-> FALSE]
NewQueryAtom(num) == [NewAtom(num) EXCEPT !.q = Leaf("AtomAtomicNum", num, FALSE)]

\* The query of the symbol 'Q': not (carbon or hydrogen).
NotCarbonOrHydrogen ==
  [op |-> "or", desc |-> "AtomOr", val |-> 0, neg |-> TRUE,
   kids |-> <<Leaf("AtomAtomicNum", 6, FALSE), Leaf("AtomAtomicNum", 1, FALSE)>>]

\* The symbols of the atom-line alphabets: the query symbols, the R-group
\* symbol, the hydrogen isotopes and two elements.
AtomSymbols == {"A", "Q", "*", "R#", "D", "T", "C", "H"}

\* The symbol branch of ParseMolFileAtomLine, lines 685-730 (massDiff = 0).
AtomOfSymbol(symb) ==
  CASE symb = "*" ->
         [NewQueryAtom(0) EXCEPT !.q = Leaf("AtomNull", 0, FALSE),
                                 !.noImplicit = TRUE]
    [] symb = "Q" ->
         [NewQueryAtom(0) EXCEPT !.q = NotCarbonOrHydrogen, !.noImplicit = TRUE]
    [] symb = "A" ->
         [NewQueryAtom(0) EXCEPT !.q = Leaf("AtomAtomicNum", 1, TRUE),
                                 !.noImplicit = TRUE]
    [] symb = "R#" -> NewAtom(0)
    [] symb = "D" -> [NewAtom(1) EXCEPT !.mass = 2014]
    [] symb = "T" -> [NewAtom(1) EXCEPT !.mass = 3016]
    [] OTHER -> [NewAtom(AtomicNumber(symb)) EXCEPT
                   !.mass = AtomicWeight(AtomicNumber(symb))]

\* The atom ParseMolFileAtomLine returns for a line of at least 34 characters
\* whose mass-difference and hydrogen-count fields are 0.
ParseMolFileAtomLine(ln) ==
  [AtomOfSymbol(ln.symb) EXCEPT !.chg = IF ln.chg # 0 THEN 4 - ln.chg ELSE 0]

\* ParseMolFileAtomLine on a line that is too short: 'new Atom' has run and
\* the throw of line 635 does not delete it.
AtomLineTooShort == {"Atom"}

\* One iteration of the loop of ParseMolBlockAtoms.
ParseMolBlockAtoms ==
  /\ pc = "atoms" /\ i < nAtoms
  /\ line' = line + 1 /\ reads' = reads + 1
  /\ \E ln \in AtomLines, e \in BOOLEAN :
       /\ StreamGives(ln, e, EmptyAtomLine)
       /\ eof' = (eof \/ e)
       /\ delivered' = delivered + Delivered(ln, e, EmptyAtomLine)
       /\ CASE eof \/ e -> ThrowInTry("FileParse", {}) /\ h' = h
            [] ~(eof \/ e) /\ ln.k = "short" ->
                 /\ ThrowInTry("FileParse", AtomLineTooShort)
                 /\ h' = [h EXCEPT !.dropIn = "ParseMolFileAtomLine"]
            [] OTHER ->
                 /\ atoms' = Append(atoms, ParseMolFileAtomLine(ln))
                 /\ confPos' = IF Len(atoms) + 1 > confPos
                                 THEN Len(atoms) + 1 ELSE confPos
                 /\ i' = i + 1
                 /\ UNCHANGED <<pc, exc, ownVars, countVars, bonds, bookmarks,
                                needsScan, chiralityPossible, fileComplete,
                                firstChargeLine, h>>
  /\ UNCHANGED <<fixedVars, calls>>

\* Variant of AttachConformer in which the atom loop stops one line early.
AttachConformer_OneShort ==
  /\ pc = "atoms" /\ i = nAtoms - 1
  /\ conf' = "attached"
  /\ i' = 0 /\ pc' = "bonds"
  /\ UNCHANGED <<exc, eof, line, reads, delivered, fixedVars, res, resDeletes, confDeletes,
                 leaked, countVars, molVars, chiralityPossible, fileComplete,
                 firstChargeLine, calls, h>>

\* After the atom block the V2000 branch hands the conformer to the molecule:
\* res->addConformer(conf, true); conf = 0.
AttachConformer ==
  /\ pc = "atoms" /\ i = nAtoms
  /\ conf' = "attached"
  /\ i' = 0 /\ pc' = "bonds"
  /\ UNCHANGED <<exc, eof, line, reads, delivered, fixedVars, res, resDeletes, confDeletes,
                 leaked, countVars, molVars, chiralityPossible, fileComplete,
                 firstChargeLine, calls, h>>

\* ------------------------------------------------------------ V2000 bonds
\* A bond line: k = "short" has fewer than 9 characters; otherwise idx1, idx2
\* (1-based), the bond type, the stereo field and the topology field.
BondTypes == {1}
StereoCodes == {0, 1}
TopoCodes == {0, 3}
EmptyBondLine == [k |-> "short", idx1 |-> 1, idx2 |-> 1, btype |-> 1,
                  stereo |-> 0, topo |-> 0]
BondLines ==
  {EmptyBondLine}
  \cup {ln \in [k : {"ok"}, idx1 : 1..MaxAtoms, idx2 : 1..(MaxAtoms + 1),
                btype : BondTypes, stereo : StereoCodes, topo : TopoCodes] :
          ln.idx1 <= ln.idx2}

BondTypeOf(bType) ==
  CASE bType = 1 -> "SINGLE" [] bType = 2 -> "DOUBLE" [] bType = 3 -> "TRIPLE"
    [] bType = 4 -> "AROMATIC" [] OTHER -> "UNSPECIFIED"

BondDirOf(stereo) ==
  CASE stereo = 1 -> "BEGINWEDGE" [] stereo = 6 -> "BEGINDASH"
    [] stereo = 3 -> "EITHERDOUBLE" [] stereo = 4 -> "UNKNOWN" [] OTHER -> "NONE"

\* The topology switch of ParseMolFileBondLine accepts 1 and 2 only.
BondTopologyOK(topo) == topo \in {0, 1, 2}

\* Variant of ParseMolFileBondLine that forgets the 'idx2--' of line 846.
ParseMolFileBondLine_EndNotShifted(ln) ==
  [begin |-> ln.idx1 - 1, end |-> ln.idx2,
   type  |-> BondTypeOf(ln.btype),
   dir   |-> BondDirOf(ln.stereo),
   q     |-> CASE ln.topo = 1 -> "InRing" [] ln.topo = 2 -> "NotInRing"
               [] OTHER -> IF ln.btype \in 0..4 THEN "none" ELSE "BondQuery"]

\* The bond ParseMolFileBondLine returns (indices already 0-based).
ParseMolFileBondLine(ln) ==
  [begin |-> ln.idx1 - 1, end |-> ln.idx2 - 1,
   type  |-> BondTypeOf(ln.btype),
   dir   |-> BondDirOf(ln.stereo),
   q     |-> CASE ln.topo = 1 -> "InRing" [] ln.topo = 2 -> "NotInRing"
               [] OTHER -> IF ln.btype \in 0..4 THEN "none" ELSE "BondQuery"]

\* The unrecognized-topology throw of line 940: the bond, its QueryBond copy
\* and the ring query have been created and none is deleted.
BondTopologyThrow == {"Bond", "QueryBond", "BondQuery"}

\* ROMol::addBond accepts a bond between two different atoms of the molecule
\* that are not yet bonded.
AddBondOK(b, as, bs) ==
  /\ b.begin \in 0..(Len(as) - 1) /\ b.end \in 0..(Len(as) - 1)
  /\ b.begin # b.end
  /\ \A k \in 1..Len(bs) : {bs[k].begin, bs[k].end} # {b.begin, b.end}

\* What a bond line names: a missing atom, or the same atom twice.
NamesBadAtoms(i1, i2, present) == i1 \notin present \/ i2 \notin present \/ i1 = i2

\* The flag ParseMolBlockBonds sets from the bond direction.
BondSetsChirality(b) == b.dir # "NONE" /\ b.dir # "UNKNOWN"

\* One iteration of the loop of ParseMolBlockBonds.
ParseMolBlockBonds ==
  /\ pc = "bonds" /\ i < nBonds
  /\ line' = line + 1 /\ reads' = reads + 1
  /\ \E ln \in BondLines, e \in BOOLEAN :
       /\ StreamGives(ln, e, EmptyBondLine)
       /\ eof' = (eof \/ e)
       /\ delivered' = delivered + Delivered(ln, e, EmptyBondLine)
       /\ LET b == ParseMolFileBondLine(ln)
              decoded == ~(eof \/ e) /\ ln.k = "ok"
              hb == [h EXCEPT !.badBond =
                       @ \/ (decoded /\ NamesBadAtoms(ln.idx1, ln.idx2,
                                                      1..Len(atoms)))]
          IN
          CASE ~decoded -> ThrowInTry("FileParse", {}) /\ h' = hb
            [] decoded /\ ~BondTopologyOK(ln.topo) ->
                 /\ ThrowInTry("FileParse", BondTopologyThrow)
                 /\ h' = [hb EXCEPT !.dropIn = "ParseMolFileBondLine"]
            [] decoded /\ BondTopologyOK(ln.topo) /\ ~AddBondOK(b, atoms, bonds) ->
                 ThrowInTry(InvariantViolation, {}) /\ h' = hb
            [] OTHER ->
                 /\ bonds' = Append(bonds, b)
                 /\ chiralityPossible' = (chiralityPossible \/ BondSetsChirality(b))
                 /\ i' = i + 1
                 /\ h' = hb
                 /\ UNCHANGED <<pc, exc, ownVars, countVars, atoms, bookmarks,
                                confPos, needsScan, fileComplete, firstChargeLine>>
  /\ UNCHANGED <<fixedVars, calls>>

\* The end of the bond block enters the property block.
EndBondBlock ==
  /\ pc = "bonds" /\ i = nBonds
  /\ pc' = "propsFirst"
  /\ UNCHANGED <<exc, eof, line, reads, delivered, fixedVars, ownVars, frameVars, calls, h>>
\* --------------------------------------------------- V2000 property records
\* replaceAtomWithQueryAtom: an atom that has a query is returned as it is;
\* otherwise QueryAtom qa(*atom) copies the atom and gives it the query
\* AtomAtomicNum = num, expanded by the formal charge query when chg # 0.
\* The mass query makeAtomMassQuery(static_cast<int>(mass)) is added when the
\* atom carries the property _hasMassQuery.  The variant seeds the charge
\* query whatever the charge.
SeedCharge_Always(a) == TRUE

SeedCharge(a) == a.chg # 0

SeedMass(a) == a.hasMassQuery

replaceAtomWithQueryAtom(a) ==
  IF a.q # NoQuery THEN a
  ELSE LET qa  == Leaf("AtomAtomicNum", a.num, FALSE)
           qc  == IF SeedCharge(a)
                    THEN AndQuery(qa, Leaf("AtomFormalCharge", a.chg, FALSE))
                    ELSE qa
           qm  == IF SeedMass(a)
                    THEN AndQuery(qc, Leaf("AtomMass", a.mass \div 1000, FALSE))
                    ELSE qc
       IN [a EXCEPT !.q = qm]

\* atom->expandQuery(q, Queries::COMPOSITE_AND)
ExpandQuery(a, q) == [a EXCEPT !.q = AndQuery(@, q)]

\* The loop of line 175: every atom's formal charge is set to 0.
ResetCharges(as) == [k \in 1..Len(as) |-> [as[k] EXCEPT !.chg = 0]]

\* The entries of a record that are applied before getAtomWithIdx(aid-1)
\* rejects an index (RANGE_CHECK): AppliedCount is their number.
RECURSIVE AppliedCount(_, _)
AppliedCount(ents, n) ==
  IF ents = <<>> \/ Head(ents)[1] \notin 1..n THEN 0
  ELSE 1 + AppliedCount(Tail(ents), n)

\* Variant of SetCharges that adds the charge of an entry to the atom's charge.
RECURSIVE SetCharges_Accumulates(_, _)
SetCharges_Accumulates(as, ents) ==
  IF ents = <<>> THEN as
  ELSE SetCharges_Accumulates(
         [as EXCEPT ![Head(ents)[1]].chg = @ + Head(ents)[2]], Tail(ents))

RECURSIVE SetCharges(_, _)
SetCharges(as, ents) ==
  IF ents = <<>> THEN as
  ELSE SetCharges([as EXCEPT ![Head(ents)[1]].chg = Head(ents)[2]], Tail(ents))

\* Variant of ParseChargeLine that runs the reset loop on every call.
ParseChargeLine_AlwaysResets(as, ents, firstCall) ==
  LET n == AppliedCount(ents, Len(as)) IN
  [atoms  |-> SetCharges(ResetCharges(as), SubSeq(ents, 1, n)),
   reset  |-> TRUE,
   status |-> IF n = Len(ents) THEN "ok" ELSE InvariantViolation]

\* ParseChargeLine(mol, text, firstCall) on the entries ents = <<aid, chg>>*:
\* the atoms it leaves, whether the reset loop ran, and how it ended.
ParseChargeLine(as, ents, firstCall) ==
  LET n == AppliedCount(ents, Len(as)) IN
  [atoms  |-> SetCharges(IF firstCall THEN ResetCharges(as) ELSE as,
                         SubSeq(ents, 1, n)),
   reset  |-> firstCall,
   status |-> IF n = Len(ents) THEN "ok" ELSE InvariantViolation]

\* ParseRadicalLine(mol, text, firstCall) on the entries <<aid, rad>>*: the
\* same reset; rad values other than 1, 2, 3 are a FileParse error.  (The
\* radical-electron count the record sets is not part of the atom record.)
RECURSIVE RadicalStatus(_, _)
RadicalStatus(ents, n) ==
  CASE ents = <<>> -> "ok"
    [] ents # <<>> /\ Head(ents)[2] \notin {1, 2, 3} -> "FileParse"
    [] ents # <<>> /\ Head(ents)[2] \in {1, 2, 3} /\ Head(ents)[1] \notin 1..n ->
         InvariantViolation
    [] OTHER -> RadicalStatus(Tail(ents), n)

ParseRadicalLine(as, ents, firstCall) ==
  [atoms  |-> IF firstCall THEN ResetCharges(as) ELSE as,
   reset  |-> firstCall,
   status |-> RadicalStatus(ents, Len(as))]

\* The ring-bond-count query of one 'M  RBC' entry (count # 0).
RingBondCountValues == {-1, -2, 1, 2, 3, 4}
RingBondCountQuery(count) ==
  CASE count = -1 -> Leaf("AtomRingBondCount", 0, FALSE)
    [] count = -2 -> Leaf("AtomRingBondCount", MAGIC, FALSE)
    [] count = 4  -> Leaf("AtomRingBondCountLE", 4, FALSE)
    [] OTHER      -> Leaf("AtomRingBondCount", count, FALSE)

\* ParseRingBondCountLine on the entries <<aid, count>>*.  An entry with
\* count 0 leaves the loop body by 'continue' before spos is advanced past its
\* count field, so the next entry's aid is read from that field: 0, which
\* getAtomWithIdx(aid-1) rejects.  An unsupported count throws with the query
\* q created at line 431 not released.
RECURSIVE ParseRingBondCountLine(_, _, _)
ParseRingBondCountLine(as, ents, scan) ==
  IF ents = <<>>
    THEN [atoms |-> as, scan |-> scan, status |-> "ok", dropped |-> {}]
  ELSE LET aid == Head(ents)[1]
           count == Head(ents)[2]
           stop(st, d) == [atoms |-> as, scan |-> scan, status |-> st,
                           dropped |-> d]
       IN CASE aid \notin 1..Len(as) -> stop(InvariantViolation, {})
            [] aid \in 1..Len(as) /\ count = 0 ->
                 IF Tail(ents) = <<>> THEN stop("ok", {})
                 ELSE stop(InvariantViolation, {})
            [] aid \in 1..Len(as) /\ count # 0
               /\ count \notin RingBondCountValues ->
                 stop("FileParse", {"AtomQuery"})
            [] OTHER ->
                 ParseRingBondCountLine(
                   [as EXCEPT ![aid] =
                      ExpandQuery(replaceAtomWithQueryAtom(as[aid]),
                                  RingBondCountQuery(count))],
                   Tail(ents),
                   scan \/ count = -2)

\* ParseRGroupLabels on the entries <<atIdx, rLabel>>*: the atom is replaced
\* by a QueryAtom copy of it carrying the AtomNull query.
RECURSIVE ParseRGroupLabels(_, _)
ParseRGroupLabels(as, ents) ==
  IF ents = <<>> THEN [atoms |-> as, status |-> "ok"]
  ELSE LET atIdx == Head(ents)[1] - 1 IN
       CASE atIdx < 0 \/ atIdx > Len(as) ->
              [atoms |-> as, status |-> "FileParse"]
         [] atIdx = Len(as) ->
              [atoms |-> as, status |-> InvariantViolation]
         [] OTHER ->
              ParseRGroupLabels(
                [as EXCEPT ![atIdx + 1].q = Leaf("AtomNull", 0, FALSE)],
                Tail(ents))

\* ParseOldAtomList on a well-formed legacy atom-list line naming atom idx and
\* one atomic number atNum: the atom becomes a query atom of that number.
ParseOldAtomList(as, idx, atNum) ==
  IF idx \notin 1..Len(as) THEN [atoms |-> as, status |-> InvariantViolation]
  ELSE [atoms  |-> [as EXCEPT ![idx] =
                      [@ EXCEPT !.num = atNum,
                                !.q = [op |-> "or", desc |-> "AtomOr", val |-> 0,
                                       neg |-> FALSE,
                                       kids |-> <<Leaf("AtomAtomicNum", atNum, FALSE)>>]]],
        status |-> "ok"]

\* A line of the property block, by the record it holds:
\*   "EMPTY"   the empty line          "MEND"   'M  END'
\*   "DOLLARS" '$$$$'                  "GROUP"  'G ...'
\*   "SKP"     'S  SKP'                "MOTHER" an 'M  xxx' record not dispatched
\*   "ALIAS"   'A  idx'                "OLDLIST" a legacy atom-list line
\*   "CHG", "RAD", "RBC", "RGP" with their entries ents = <<aid, value>>*
EmptyProp == [k |-> "EMPTY", ents |-> <<>>]
ChgValues == {-1, 1}
RadValues == {1, 4}
RbcValues == {-2, 0, 5}
PropLines ==
  [k : {"EMPTY", "MEND", "DOLLARS", "GROUP", "SKP", "MOTHER"}, ents : {<<>>}]
  \cup [k : {"ALIAS"}, ents : {<<<<a, 0>>>> : a \in 1..MaxAtoms}]
  \cup [k : {"OLDLIST"}, ents : {<<<<a, 6>>>> : a \in 1..MaxAtoms}]
  \cup [k : {"CHG"}, ents : SeqsUpTo((1..MaxAtoms) \X ChgValues, MaxEnt)]
  \cup [k : {"RAD"}, ents : SeqsUpTo((1..MaxAtoms) \X RadValues, MaxEnt)]
  \cup [k : {"RBC"}, ents : SeqsUpTo((1..MaxAtoms) \X RbcValues, MaxEnt)]
  \cup [k : {"RGP"}, ents : SeqsUpTo((0..(MaxAtoms + 1)) \X {1}, MaxEnt)]

\* The line that follows an 'A  idx' line, by its text: the empty line,
\* 'M  END', '$$$$' or a well-formed 'M  CHG' record.
AliasTexts == {"EMPTY", "MEND", "DOLLARS", "CHG"}

\* ParseAtomAlias, lines 591-607, on the line 'A  idx' and the line read after
\* it: the range check, then the property molFileAlias of atom idx-1 is set
\* to that line (stored tells the atom and the text set).  The variant sets
\* nothing.
NothingStored == <<0, "none">>

ParseAtomAlias_TextDropped(as, idx, nextLine) ==
  [atoms |-> as, stored |-> NothingStored,
   status |-> IF idx \in 1..Len(as) THEN "ok" ELSE InvariantViolation]

ParseAtomAlias(as, idx, nextLine) ==
  IF idx \notin 1..Len(as)
    THEN [atoms |-> as, stored |-> NothingStored, status |-> InvariantViolation]
    ELSE [atoms |-> [as EXCEPT ![idx].hasAlias = TRUE],
          stored |-> <<idx, nextLine>>, status |-> "ok"]

\* The first line of the block goes to ParseOldAtomList unless it starts with
\* 'M', 'A', 'V' or 'G'.
StartsWithMAVG(ln) ==
  ln.k \in {"MEND", "GROUP", "MOTHER", "ALIAS", "CHG", "RAD", "RBC", "RGP"}

FirstLineCheck(ln, as) ==
  CASE StartsWithMAVG(ln) -> [atoms |-> as, status |-> "ok"]
    [] ln.k = "OLDLIST" -> ParseOldAtomList(as, ln.ents[1][1], ln.ents[1][2])
    [] OTHER -> [atoms |-> as, status |-> "FileParse"]

\* Variants of the loop condition: without the '$$$$' test, and without the
\* end-of-file test.
PropertyLoopRuns_IgnoresDollars(ln, atEof) == ~atEof /\ ln.k # "MEND"

PropertyLoopRuns_IgnoresEof(ln, atEof) == ln.k # "MEND" /\ ln.k # "DOLLARS"

\* The loop condition of line 1019 on the line just read.
PropertyLoopRuns(ln, atEof) == ~atEof /\ ln.k # "MEND" /\ ln.k # "DOLLARS"

\* The value ParseMolBlockProperties returns when the loop has ended on ln
\* (lines 1052-1055); the variant takes the block as complete on any line.
FileComplete_WithoutMEnd(ln) == TRUE

FileComplete(ln) == ln.k = "MEND"

\* The record dispatch of lines 1020-1047 on the atoms as: what the record
\* leaves, the status it ends with and the objects a throw drops.
PropertyRecord(ln, nextLine, as, scan, first) ==
  LET plain(st) == [atoms |-> as, scan |-> scan, status |-> st, reset |-> FALSE,
                    charge |-> FALSE, dropped |-> {}, stored |-> NothingStored]
  IN CASE ln.k = "ALIAS" ->
            LET r == ParseAtomAlias(as, ln.ents[1][1], nextLine) IN
            [atoms |-> r.atoms, scan |-> scan, status |-> r.status,
             reset |-> FALSE, charge |-> FALSE, dropped |-> {},
             stored |-> r.stored]
       [] ln.k = "CHG" ->
            LET r == ParseChargeLine(as, ln.ents, first) IN
            [atoms |-> r.atoms, scan |-> scan, status |-> r.status,
             reset |-> r.reset, charge |-> TRUE, dropped |-> {},
             stored |-> NothingStored]
       [] ln.k = "RAD" ->
            LET r == ParseRadicalLine(as, ln.ents, first) IN
            [atoms |-> r.atoms, scan |-> scan, status |-> r.status,
             reset |-> r.reset, charge |-> TRUE, dropped |-> {},
             stored |-> NothingStored]
       [] ln.k = "RBC" ->
            LET r == ParseRingBondCountLine(as, ln.ents, scan) IN
            [atoms |-> r.atoms, scan |-> r.scan, status |-> r.status,
             reset |-> FALSE, charge |-> FALSE, dropped |-> r.dropped,
             stored |-> NothingStored]
       [] ln.k = "RGP" ->
            LET r == ParseRGroupLabels(as, ln.ents) IN
            [atoms |-> r.atoms, scan |-> scan, status |-> r.status,
             reset |-> FALSE, charge |-> FALSE, dropped |-> {},
             stored |-> NothingStored]
       [] OTHER -> plain("ok")

\* History of one dispatched record, taken from the text of the line: the CHG
\* entries that name an atom of the molecule up to the first that does not,
\* and whether an RBC entry with count -2 is reached.
RECURSIVE LastCharges(_, _)
LastCharges(m, ents) ==
  IF ents = <<>> THEN m
  ELSE LastCharges([a \in DOMAIN m \cup {Head(ents)[1]} |->
                      IF a = Head(ents)[1] THEN Head(ents)[2] ELSE m[a]],
                   Tail(ents))

RECURSIVE SumCharges(_)
SumCharges(ents) ==
  IF ents = <<>> THEN 0 ELSE Head(ents)[2] + SumCharges(Tail(ents))

ReachesMagic(ents, n) ==
  \E k \in 1..Len(ents) :
    /\ ents[k][1] \in 1..n /\ ents[k][2] = -2
    /\ \A j \in 1..(k - 1) :
         ents[j][1] \in 1..n /\ ents[j][2] \in RingBondCountValues

RecordHistory(hh, ln, n, reset, threw) ==
  LET applied == IF ln.k = "CHG"
                   THEN SubSeq(ln.ents, 1, AppliedCount(ln.ents, n))
                   ELSE <<>>
  IN [hh EXCEPT !.nprops = @ + 1,
                !.resetCount = IF reset THEN @ + 1 ELSE @,
                !.chgSeen = @ \/ ln.k = "CHG",
                !.radSeen = @ \/ ln.k = "RAD",
                !.lastChg = LastCharges(@, applied),
                !.chgDup = @ \/ Cardinality(DOMAIN LastCharges(hh.lastChg, applied))
                                  # Cardinality(DOMAIN hh.lastChg) + Len(applied),
                !.chgSum = @ + SumCharges(applied),
                !.magicSeen = @ \/ (ln.k = "RBC" /\ ReachesMagic(ln.ents, n)),
                !.rgpOut = @ \/ (ln.k = "RGP" /\ \E k \in 1..Len(ln.ents) :
                                                   ln.ents[k][1] \notin 1..n),
                !.dropIn = IF threw THEN "ParseRingBondCountLine" ELSE @]

\* The increments of 'line' in one pass: 'line++' of line 1010 or 1048 for the
\* line read, and 'line++' of line 1021 for the second line of an alias record.
LineIncrements_AliasCountedOnce(alias) == 1

LineIncrements(alias) == IF alias THEN 2 ELSE 1

\* ParseMolBlockProperties, one line at a time: the getLine of line 1009 (first
\* line, with the legacy atom-list check) or 1049, the loop test of line 1019
\* on the line read and, when the loop runs, the dispatch of that line (an
\* alias record reads its continuation line nextLine with the getLine of line
\* 1022, whatever that line holds).
ParseMolBlockProperties ==
  /\ pc \in {"propsFirst", "props"}
  /\ \E ln \in PropLines, e \in BOOLEAN, e2 \in BOOLEAN, d2 \in 0..1,
        nextLine \in AliasTexts :
       /\ StreamGives(ln, e, EmptyProp)
       /\ LET atEof == eof \/ e
              old == IF pc = "propsFirst" THEN FirstLineCheck(ln, atoms)
                     ELSE [atoms |-> atoms, status |-> "ok"]
              runs == PropertyLoopRuns(ln, atEof)
              r == PropertyRecord(ln, nextLine, old.atoms, needsScan,
                                  firstChargeLine)
              alias == old.status = "ok" /\ runs /\ ln.k = "ALIAS"
              hd == [h EXCEPT !.unrecognized = ln.k \in {"MOTHER", "GROUP", "SKP"},
                              !.aliasRead = "none", !.aliasText = "none",
                              !.aliasAtom = 0,
                              !.dollarRead = @ \/ ln.k = "DOLLARS",
                              !.dollarAt = IF ln.k = "DOLLARS" THEN reads + 1 ELSE @]
          IN /\ (runs /\ old.status = "ok") => h.nprops < MaxProps
             /\ ~alias => (~e2 /\ nextLine = "EMPTY")
             /\ eof' = (atEof \/ (alias /\ e2))
             /\ line' = line + LineIncrements(alias)
             /\ reads' = reads + (IF alias THEN 2 ELSE 1)
             /\ ~alias => d2 = 0
             /\ alias => d2 = (IF e2 /\ nextLine = "EMPTY" THEN 0 ELSE 1)
             /\ delivered' = delivered + Delivered(ln, e, EmptyProp) + d2
             /\ CASE old.status # "ok" ->
                       ThrowInTry(old.status, {}) /\ h' = hd
                  [] old.status = "ok" /\ ~runs ->
                       /\ atoms' = old.atoms
                       /\ fileComplete' = FileComplete(ln)
                       /\ h' = [hd EXCEPT !.mEndRead = (ln.k = "MEND")]
                       /\ pc' = "complete"
                       /\ UNCHANGED <<exc, ownVars, countVars, bonds, bookmarks,
                                      confPos, needsScan, chiralityPossible,
                                      firstChargeLine, i>>
                  [] old.status = "ok" /\ runs /\ r.status # "ok" ->
                       /\ ThrowInTry(r.status, r.dropped)
                       /\ h' = RecordHistory(hd, ln, Len(old.atoms), r.reset,
                                             r.dropped # {})
                  [] OTHER ->
                       /\ atoms' = r.atoms
                       /\ needsScan' = r.scan
                       /\ firstChargeLine' = (firstChargeLine /\ ~r.charge)
                       /\ h' = [RecordHistory(hd, ln, Len(old.atoms), r.reset,
                                               FALSE)
                                   EXCEPT !.aliasRead = IF alias THEN nextLine ELSE @,
                                          !.aliasAtom = r.stored[1],
                                          !.aliasText = r.stored[2]]
                       /\ pc' = "props"
                       /\ UNCHANGED <<exc, ownVars, countVars, bonds, bookmarks,
                                      confPos, chiralityPossible, fileComplete, i>>
  /\ UNCHANGED <<fixedVars, calls>>

\* ---------------------------------------------------------------- V3000
\* getV3000Line yields the payload of a line that starts with 'M  V30 ' and
\* throws on any other line (the empty line of end-of-file included).  The
\* payloads of the keyword lines, by what the block parser compares:
NotV30 == "not V30"
V3Keywords ==
  {"BEGIN CTAB", "BEGIN ATOM", "END ATOM", "BEGIN BOND", "END BOND",
   "BEGIN SGROUP", "END SGROUP", "BEGIN OBJ3D", "END OBJ3D", "END CTAB",
   "LINKNODE 1 3 2 1 2", "BEGIN COLLECTION", "END COLLECTION",
   "DEFAULT CLASS=A", "X"}
V3KeywordLines == V3Keywords \cup {NotV30}

PayloadLength(ln) ==
  CASE ln \in {"END ATOM", "END BOND", "END CTAB"} -> 8
    [] ln = "END OBJ3D" -> 9
    [] ln \in {"BEGIN CTAB", "BEGIN ATOM", "BEGIN BOND", "END SGROUP"} -> 10
    [] ln = "BEGIN OBJ3D" -> 11
    [] ln = "BEGIN SGROUP" -> 12
    [] ln = "END COLLECTION" -> 14
    [] ln = "DEFAULT CLASS=A" -> 15
    [] ln = "BEGIN COLLECTION" -> 16
    [] ln = "LINKNODE 1 3 2 1 2" -> 18
    [] ln = "X" -> 1
    [] OTHER -> 0

StartsWithBEGIN_Never(ln) == FALSE

StartsWithBEGIN(ln) ==
  ln \in {"BEGIN CTAB", "BEGIN ATOM", "BEGIN BOND", "BEGIN SGROUP",
          "BEGIN OBJ3D", "BEGIN COLLECTION"}
StartsWithEND(ln) ==
  ln \in {"END ATOM", "END BOND", "END SGROUP", "END OBJ3D", "END CTAB",
          "END COLLECTION"}
StartsWithLINKNODE(ln) == ln = "LINKNODE 1 3 2 1 2"

\* getV3000Line followed by the comparison with an expected keyword.
V3KeywordStep(expected, nextpc) ==
  /\ line' = line + 1 /\ reads' = reads + 1
  /\ \E ln \in V3KeywordLines, e \in BOOLEAN :
       /\ StreamGives(ln, e, NotV30)
       /\ eof' = (eof \/ e)
       /\ delivered' = delivered + Delivered(ln, e, NotV30)
       /\ IF ln = expected
            THEN /\ pc' = nextpc /\ i' = 0
                 /\ UNCHANGED <<exc, ownVars, countVars, molVars,
                                chiralityPossible, fileComplete, firstChargeLine>>
            ELSE ThrowInTry("FileParse", {})
  /\ UNCHANGED <<fixedVars, calls, h>>

\* getV3000Line, the loop of lines 1070-1081: a line that starts with
\* 'M  V30 ' and ends with '-' is one segment of a logical line; its text is
\* kept and another line is read.  V3Segment reads such a segment; the actions
\* of this section read the last segment and decode the joined payload.
MaxSegs == 1

V3Reading ==
  /\ pc \in {"v3begin", "v3counts", "v3atomBegin", "v3atoms", "v3bondBegin",
             "v3bonds", "v3sgBegin", "v3sg", "v3objBegin", "v3obj", "v3link",
             "v3blocks", "v3skip"}
  /\ pc = "v3bondBegin" => nBonds > 0

V3Segment ==
  /\ V3Reading
  /\ ~eof
  /\ h.nsegs < MaxSegs
  /\ line' = line + 1 /\ reads' = reads + 1
  /\ delivered' = delivered + 1
  /\ \E e \in BOOLEAN : eof' = e
  /\ h' = [h EXCEPT !.nsegs = @ + 1]
  /\ UNCHANGED <<pc, exc, fixedVars, ownVars, frameVars, calls>>

\* ParseV3000MolBlock: the BEGIN CTAB line.
V3BeginCtab == pc = "v3begin" /\ V3KeywordStep("BEGIN CTAB", "v3counts")

\* The COUNTS line: k = "bad" is a V30 line that is not 'COUNTS ' with two
\* counts; otherwise ntok tokens follow the keyword: na, nb, then nsg (when
\* ntok > 2) and n3d (when ntok > 3).
NoCounts == [k |-> "notV30", na |-> 0, nb |-> 0, ntok |-> 2, nsg |-> 0, n3d |-> 0]
V3CountsLines ==
  {NoCounts, [NoCounts EXCEPT !.k = "bad"]}
  \cup {c \in [k : {"ok"}, na : 0..MaxAtoms, nb : 0..MaxBonds, ntok : {2, 3, 4},
               nsg : {0, 1}, n3d : {0}] :
          c.ntok = 2 => c.nsg = 0}

\* nSgroups and n3DConstraints are declared without an initializer and
\* assigned only when their token is present: reading them otherwise yields an
\* indeterminate value.
Indeterminate == {0, 1}

\* The values nSgroups and n3DConstraints can take after lines 1553-1555 on
\* the COUNTS line ln.
OptionalCounts(ln) ==
  (IF ln.ntok > 2 THEN {ln.nsg} ELSE Indeterminate)
  \X (IF ln.ntok > 3 THEN {ln.n3d} ELSE Indeterminate)

\* ParseV3000MolBlock: the COUNTS line, 'conf = new Conformer(nAtoms)' and the
\* optional counts.  nAtoms and nBonds are the locals of ParseV3000MolBlock.
\* h.rerun holds what a second, independent run reads on the same line.
V3Counts ==
  /\ pc = "v3counts"
  /\ line' = line + 1 /\ reads' = reads + 1
  /\ \E ln \in V3CountsLines, e \in BOOLEAN :
       /\ StreamGives(ln, e, NoCounts)
       /\ eof' = (eof \/ e)
       /\ delivered' = delivered + Delivered(ln, e, NoCounts)
       /\ IF ln.k # "ok" \/ ln.na <= 0
            THEN ThrowInTry("FileParse", {}) /\ h' = h
            ELSE /\ nAtoms' = ln.na /\ nBonds' = ln.nb
                 /\ conf' = "pending" /\ confPos' = ln.na
                 /\ \E c \in OptionalCounts(ln), c2 \in OptionalCounts(ln) :
                      /\ nSgroups' = c[1] /\ n3DConstraints' = c[2]
                      /\ h' = [h EXCEPT !.declAtoms = ln.na,
                                        !.declBonds = ln.nb,
                                        !.confMade = TRUE, !.rerun = c2,
                                        !.ntok = ln.ntok]
                 /\ pc' = "v3atomBegin"
                 /\ UNCHANGED <<exc, res, resDeletes, confDeletes, leaked,
                                ctabVersion, atoms, bonds, bookmarks, needsScan,
                                localVars>>
  /\ UNCHANGED <<fixedVars, calls>>

\* ParseV3000AtomBlock: the BEGIN ATOM line.
V3BeginAtom == pc = "v3atomBegin" /\ V3KeywordStep("BEGIN ATOM", "v3atoms")

\* An atom line of the V3000 atom block: k = "short" stops after the symbol
\* token; otherwise molIdx, the symbol and the CHG property: "none" when the
\* line carries no property, "blank" for CHG=" ".
NotV30Atom == [k |-> "notV30", molIdx |-> 1, symb |-> "C", chg |-> "none"]
V3AtomLines ==
  {[k |-> "notV30", molIdx |-> 1, symb |-> "C", chg |-> "none"],
   [k |-> "short", molIdx |-> 1, symb |-> "C", chg |-> "none"]}
  \cup [k : {"ok"}, molIdx : 1..MaxAtoms, symb : {"C", "H"},
        chg : {"none", "blank"}]

\* The atom ParseV3000AtomSymbol builds for a symbol that is not an atom list
\* (lines 1119-1150); for 'R#' no atom is built before line 1139.
V3000AtomOfSymbol(token) ==
  CASE token = "*" ->
         [NewQueryAtom(0) EXCEPT !.q = Leaf("AtomNull", 0, FALSE),
                                 !.noImplicit = TRUE]
    [] token = "Q" ->
         [NewQueryAtom(0) EXCEPT !.q = NotCarbonOrHydrogen, !.noImplicit = TRUE]
    [] token = "A" ->
         [NewQueryAtom(0) EXCEPT !.q = Leaf("AtomAtomicNum", 1, TRUE),
                                 !.noImplicit = TRUE]
    [] token = "D" -> [NewAtom(1) EXCEPT !.mass = 2014]
    [] token = "T" -> [NewAtom(1) EXCEPT !.mass = 3016]
    [] OTHER -> [NewAtom(AtomicNumber(token)) EXCEPT
                   !.mass = AtomicWeight(AtomicNumber(token))]

\* One iteration of the loop of ParseV3000AtomBlock.  On a short line the atom
\* ParseV3000AtomSymbol created is not deleted by the throw; toInt on a blank
\* CHG value raises bad_lexical_cast after the molecule took the atom.
V3Atom ==
  /\ pc = "v3atoms" /\ i < nAtoms
  /\ line' = line + 1 /\ reads' = reads + 1
  /\ \E ln \in V3AtomLines, e \in BOOLEAN :
       /\ StreamGives(ln, e, [k |-> "notV30", molIdx |-> 1, symb |-> "C",
                              chg |-> "none"])
       /\ eof' = (eof \/ e)
       /\ delivered' = delivered + Delivered(ln, e, NotV30Atom)
       /\ CASE ln.k = "notV30" -> ThrowInTry("FileParse", {}) /\ h' = h
            [] ln.k = "short" ->
                 /\ ThrowInTry("FileParse", {"Atom"})
                 /\ h' = [h EXCEPT !.dropIn = "ParseV3000AtomBlock"]
            [] ln.k = "ok" /\ ln.chg = "blank" ->
                 ThrowInTry(BadLexicalCast, {}) /\ h' = h
            [] OTHER ->
                 /\ atoms' = Append(atoms, V3000AtomOfSymbol(ln.symb))
                 /\ bookmarks' = Append(bookmarks, ln.molIdx)
                 /\ confPos' = IF Len(atoms) + 1 > confPos
                                 THEN Len(atoms) + 1 ELSE confPos
                 /\ i' = i + 1
                 /\ UNCHANGED <<pc, exc, ownVars, countVars, bonds, needsScan,
                                chiralityPossible, fileComplete, firstChargeLine,
                                h>>
  /\ UNCHANGED <<fixedVars, calls>>

\* ParseV3000AtomBlock: the END ATOM line.
V3EndAtom ==
  pc = "v3atoms" /\ i = nAtoms /\ V3KeywordStep("END ATOM", "v3bondBegin")

\* ParseV3000BondBlock: PRECONDITION(nBonds>0) and the BEGIN BOND line.
V3BeginBond ==
  /\ pc = "v3bondBegin"
  /\ IF nBonds > 0
       THEN V3KeywordStep("BEGIN BOND", "v3bonds")
       ELSE /\ ThrowInTry(InvariantViolation, {})
            /\ UNCHANGED <<eof, line, reads, delivered, fixedVars, calls, h>>

\* A bond line of the V3000 bond block: k = "short" has fewer than 4 tokens;
\* otherwise the bond type, the two atom numbers and the CFG property.
NotV30Bond == [k |-> "notV30", btype |-> 1, a1 |-> 1, a2 |-> 1, cfg |-> 0]
V3BondLines ==
  {[k |-> "notV30", btype |-> 1, a1 |-> 1, a2 |-> 1, cfg |-> 0],
   [k |-> "short", btype |-> 1, a1 |-> 1, a2 |-> 1, cfg |-> 0]}
  \cup {b \in [k : {"ok"}, btype : BondTypes, a1 : 1..MaxAtoms,
               a2 : 1..(MaxAtoms + 1), cfg : {0, 1, 4}] : b.a1 <= b.a2}

\* mol->getAtomWithBookmark(mark): the first atom carrying the bookmark
\* (0-based index), -1 when no atom carries it.
AtomWithBookmark(mark, bms) ==
  IF \E k \in 1..Len(bms) : bms[k] = mark
    THEN (CHOOSE k \in 1..Len(bms) :
            bms[k] = mark /\ \A j \in 1..(k - 1) : bms[j] # mark) - 1
    ELSE -1

\* The CFG switch of lines 1457-1477: the direction it gives the bond and
\* whether it sets chiralityPossible.
V3000BondDir(bType, cfg) ==
  CASE cfg = 1 -> "BEGINWEDGE"
    [] cfg = 3 -> "BEGINDASH"
    [] cfg = 2 /\ bType = 1 -> "UNKNOWN"
    [] cfg = 2 /\ bType = 2 -> "EITHERDOUBLE"
    [] OTHER -> "NONE"
CfgSetsChirality(cfg) == cfg \in {1, 3}

\* One iteration of the loop of ParseV3000BondBlock.  The throws after
\* 'new Bond' (bad CFG value, bookmark lookup) do not delete the bond.
V3Bond ==
  /\ pc = "v3bonds" /\ i < nBonds
  /\ line' = line + 1 /\ reads' = reads + 1
  /\ \E ln \in V3BondLines, e \in BOOLEAN :
       /\ StreamGives(ln, e, [k |-> "notV30", btype |-> 1, a1 |-> 1, a2 |-> 1,
                              cfg |-> 0])
       /\ eof' = (eof \/ e)
       /\ delivered' = delivered + Delivered(ln, e, NotV30Bond)
       /\ LET marks == {bookmarks[k] : k \in 1..Len(bookmarks)}
              b == [begin |-> AtomWithBookmark(ln.a1, bookmarks),
                    end   |-> AtomWithBookmark(ln.a2, bookmarks),
                    type  |-> BondTypeOf(ln.btype),
                    dir   |-> V3000BondDir(ln.btype, ln.cfg),
                    q     |-> "none"]
              hb == [h EXCEPT !.badBond =
                       @ \/ (ln.k = "ok" /\ NamesBadAtoms(ln.a1, ln.a2, marks))]
          IN
          CASE ln.k # "ok" -> ThrowInTry("FileParse", {}) /\ h' = hb
            [] ln.k = "ok" /\ ln.cfg \notin {0, 1, 2, 3} ->
                 /\ ThrowInTry("FileParse", {"Bond"})
                 /\ h' = [hb EXCEPT !.dropIn = "ParseV3000BondBlock"]
            [] ln.k = "ok" /\ ln.cfg \in {0, 1, 2, 3}
               /\ (b.begin = -1 \/ b.end = -1) ->
                 ThrowInTry(InvariantViolation, {"Bond"}) /\ h' = hb
            [] ln.k = "ok" /\ ln.cfg \in {0, 1, 2, 3}
               /\ b.begin # -1 /\ b.end # -1 /\ ~AddBondOK(b, atoms, bonds) ->
                 ThrowInTry(InvariantViolation, {}) /\ h' = hb
            [] OTHER ->
                 /\ bonds' = Append(bonds, b)
                 /\ chiralityPossible' = (chiralityPossible \/ CfgSetsChirality(ln.cfg))
                 /\ i' = i + 1
                 /\ h' = hb
                 /\ UNCHANGED <<pc, exc, ownVars, countVars, atoms, bookmarks,
                                confPos, needsScan, fileComplete, firstChargeLine>>
  /\ UNCHANGED <<fixedVars, calls>>

\* Where ParseV3000MolBlock continues after the SGROUP and OBJ3D tests.
AfterSgroups == IF n3DConstraints # 0 THEN "v3objBegin" ELSE "v3link"
AfterBonds == IF nSgroups # 0 THEN "v3sgBegin" ELSE AfterSgroups

\* ParseV3000BondBlock: the END BOND line.
V3EndBond == pc = "v3bonds" /\ i = nBonds /\ V3KeywordStep("END BOND", AfterBonds)

\* The skipping loops of ParseV3000MolBlock run as long as the input feeds
\* them; a run skips at most MaxSkip lines.
MaySkip == h.nskip < MaxSkip
Skipped == [h EXCEPT !.nskip = @ + 1]

\* if(nSgroups): the BEGIN SGROUP line.
V3BeginSgroup == pc = "v3sgBegin" /\ V3KeywordStep("BEGIN SGROUP", "v3sg")

\* The test that leaves the while(1) loop of the SGROUP block.
SgroupLoopBreaks(ln) == PayloadLength(ln) >= 10 /\ ln # "END SGROUP"

\* One iteration of the while(1) loop of the SGROUP block.
V3SkipSgroup ==
  /\ pc = "v3sg"
  /\ line' = line + 1 /\ reads' = reads + 1
  /\ \E ln \in V3KeywordLines, e \in BOOLEAN :
       /\ StreamGives(ln, e, NotV30)
       /\ eof' = (eof \/ e)
       /\ delivered' = delivered + Delivered(ln, e, NotV30)
       /\ CASE ln = NotV30 -> ThrowInTry("FileParse", {}) /\ h' = h
            [] ln # NotV30 /\ SgroupLoopBreaks(ln) ->
                 /\ pc' = AfterSgroups
                 /\ h' = [h EXCEPT !.sgLeft = IF ln = "END SGROUP"
                                               THEN "atEnd" ELSE "elsewhere"]
                 /\ UNCHANGED <<exc, ownVars, frameVars>>
            [] OTHER ->
                 /\ MaySkip
                 /\ h' = [Skipped EXCEPT
                            !.sgEndSeen = @ \/ ln = "END SGROUP"]
                 /\ UNCHANGED <<pc, exc, ownVars, frameVars>>
  /\ UNCHANGED <<fixedVars, calls>>

\* if(n3DConstraints): the BEGIN OBJ3D line.
V3BeginObj3d == pc = "v3objBegin" /\ V3KeywordStep("BEGIN OBJ3D", "v3obj")

\* The n3DConstraints lines of the OBJ3D block, then its END OBJ3D line.
V3Obj3d ==
  /\ pc = "v3obj"
  /\ IF i < n3DConstraints
       THEN /\ line' = line + 1 /\ reads' = reads + 1
            /\ \E ln \in V3KeywordLines, e \in BOOLEAN :
                 /\ StreamGives(ln, e, NotV30)
                 /\ eof' = (eof \/ e)
                 /\ delivered' = delivered + Delivered(ln, e, NotV30)
                 /\ IF ln = NotV30
                      THEN ThrowInTry("FileParse", {})
                      ELSE /\ i' = i + 1
                           /\ UNCHANGED <<pc, exc, ownVars, countVars, molVars,
                                          chiralityPossible, fileComplete,
                                          firstChargeLine>>
            /\ UNCHANGED <<fixedVars, calls, h>>
       ELSE V3KeywordStep("END OBJ3D", "v3link")

\* The line read before, and by, the LINKNODE loop, and the line read after an
\* unknown block: LINKNODE lines are skipped (only before the first unknown
\* block), a BEGIN line opens a block to skip, anything else must be END CTAB.
\* On END CTAB the conformer goes to the molecule (addConformer; conf = 0)
\* and ParseV3000MolBlock returns true.
V3Tail ==
  /\ pc \in {"v3link", "v3blocks"}
  /\ line' = line + 1 /\ reads' = reads + 1
  /\ \E ln \in V3KeywordLines, e \in BOOLEAN :
       /\ StreamGives(ln, e, NotV30)
       /\ eof' = (eof \/ e)
       /\ delivered' = delivered + Delivered(ln, e, NotV30)
       /\ CASE ln = NotV30 ->
                 /\ ThrowInTry("FileParse", {})
                 /\ h' = [h EXCEPT !.tailThrow = ln]
            [] pc = "v3link" /\ StartsWithLINKNODE(ln) ->
                 /\ MaySkip /\ h' = Skipped
                 /\ UNCHANGED <<pc, exc, ownVars, frameVars>>
            [] StartsWithBEGIN(ln) ->
                 /\ MaySkip /\ h' = Skipped
                 /\ pc' = "v3skip"
                 /\ UNCHANGED <<exc, ownVars, frameVars>>
            [] ln = "END CTAB" ->
                 /\ conf' = "attached"
                 /\ fileComplete' = TRUE
                 /\ pc' = "complete" /\ h' = [h EXCEPT !.ntok = 0]
                 /\ UNCHANGED <<exc, res, resDeletes, confDeletes, leaked,
                                countVars, molVars, chiralityPossible,
                                firstChargeLine, i>>
            [] OTHER ->
                 /\ ThrowInTry("FileParse", {})
                 /\ h' = [h EXCEPT !.tailThrow = ln]
  /\ UNCHANGED <<fixedVars, calls>>

\* A line inside an unknown block: the block ends at the first line that
\* starts with END.
V3SkipBlock ==
  /\ pc = "v3skip"
  /\ line' = line + 1 /\ reads' = reads + 1
  /\ \E ln \in V3KeywordLines, e \in BOOLEAN :
       /\ StreamGives(ln, e, NotV30)
       /\ eof' = (eof \/ e)
       /\ delivered' = delivered + Delivered(ln, e, NotV30)
       /\ CASE ln = NotV30 ->
                 /\ ThrowInTry("FileParse", {})
                 /\ h' = [h EXCEPT !.blockThrow = ln]
            [] ln # NotV30 /\ PayloadLength(ln) >= 3 /\ StartsWithEND(ln) ->
                 /\ pc' = "v3blocks" /\ h' = [h EXCEPT !.blocks = @ + 1]
                 /\ UNCHANGED <<exc, ownVars, frameVars>>
            [] OTHER ->
                 /\ MaySkip /\ h' = Skipped
                 /\ UNCHANGED <<pc, exc, ownVars, frameVars>>
  /\ UNCHANGED <<fixedVars, calls>>

\* --------------------------------------------- MolDataStreamToMol: after try
\* if(!fileComplete){ delete res; throw }, then calcExplicitValence(false) on
\* every atom.
CheckFileComplete ==
  /\ pc = "complete"
  /\ IF fileComplete
       THEN /\ calls' = Append(calls, "calcExplicitValence")
            /\ pc' = IF sanitize THEN "sanitize" ELSE "queries"
            /\ UNCHANGED <<exc, ownVars, frameVars>>
       ELSE DeleteResAndThrow("FileParse") /\ calls' = calls
  /\ UNCHANGED <<eof, line, reads, delivered, fixedVars, h>>

\* MolOps::removeHs(mol, false, false): the hydrogens it removes are the
\* non-query H atoms with exactly one neighbour, a heavy atom; the atoms kept
\* are renumbered in order and the bonds of removed atoms disappear.
Degree(k, bs) ==
  Cardinality({j \in 1..Len(bs) : bs[j].begin = k - 1 \/ bs[j].end = k - 1})
Neighbours(k, bs) ==
  {bs[j].end + 1 : j \in {x \in 1..Len(bs) : bs[x].begin = k - 1}}
  \cup {bs[j].begin + 1 : j \in {x \in 1..Len(bs) : bs[x].end = k - 1}}
RemovableHs(as, bs) ==
  {k \in 1..Len(as) :
     /\ as[k].num = 1 /\ as[k].q = NoQuery
     /\ Degree(k, bs) = 1
     /\ \A m \in Neighbours(k, bs) : as[m].num # 1}
RemoveHs(as, bs) ==
  LET gone == RemovableHs(as, bs)
      kept == (1..Len(as)) \ gone
      nth(j) == CHOOSE k \in kept : Cardinality({x \in kept : x < k}) = j - 1
      newIdx(k) == Cardinality({x \in kept : x < k})
      left == SelectSeq(bs, LAMBDA b : (b.begin + 1) \notin gone
                                       /\ (b.end + 1) \notin gone)
  IN [atoms |-> [j \in 1..Cardinality(kept) |-> as[nth(j)]],
      bonds |-> [j \in 1..Len(left) |->
                   [left[j] EXCEPT !.begin = newIdx(left[j].begin + 1),
                                   !.end = newIdx(left[j].end + 1)]],
      removed |-> Cardinality(gone)]

\* ClearSingleBondDirFlags: single bonds lose their direction.
ClearSingleBondDirFlags(bs) ==
  [j \in 1..Len(bs) |->
     IF bs[j].type = "SINGLE" THEN [bs[j] EXCEPT !.dir = "NONE"] ELSE bs[j]]

\* The calls of the sanitize branch that precede its try block (lines
\* 1802-1806); the variant perceives the atom stereochemistry before cleanUp.
StereoBeforeSanitize_DetectFirst ==
  IF chiralityPossible THEN <<"DetectAtomStereoChemistry", "cleanUp">> ELSE <<>>

StereoBeforeSanitize ==
  IF chiralityPossible THEN <<"cleanUp", "DetectAtomStereoChemistry">> ELSE <<>>

\* if(res && sanitize): the stereo perception, the try block of lines
\* 1808-1830 and assignStereochemistry.  removeHs and sanitizeMol may raise
\* MolSanitizeException, which the handler answers with 'delete res' and a
\* rethrow.  With removeHs the molecule becomes the copy removeHs returns.
SanitizePhase ==
  /\ pc = "sanitize"
  /\ \E ok \in BOOLEAN :
       IF ok
         THEN LET m == IF removeHs THEN RemoveHs(atoms, bonds)
                       ELSE [atoms |-> atoms, bonds |-> bonds, removed |-> 0]
              IN /\ atoms' = m.atoms
                 /\ bonds' = ClearSingleBondDirFlags(m.bonds)
                 /\ confPos' = confPos - m.removed
                 /\ bookmarks' = IF m.removed = 0 THEN bookmarks ELSE <<>>
                 /\ h' = [h EXCEPT !.hRemoved = m.removed]
                 /\ calls' = calls \o StereoBeforeSanitize
                               \o <<IF removeHs THEN "removeHs" ELSE "sanitizeMol",
                                    "ClearSingleBondDirFlags",
                                    "DetectBondStereoChemistry",
                                    "assignStereochemistry">>
                 /\ pc' = "queries"
                 /\ UNCHANGED <<exc, ownVars, countVars, needsScan, localVars>>
         ELSE /\ calls' = calls \o StereoBeforeSanitize
                            \o <<IF removeHs THEN "removeHs" ELSE "sanitizeMol">>
              /\ DeleteResAndThrow("Sanitize")
              /\ h' = h
  /\ UNCHANGED <<eof, line, reads, delivered, fixedVars>>

\* ------------------------------------------------------ query completion
\* Bonds of the molecule that lie in a ring, and the data functions of the
\* query leaves evaluated on atom k (1-based).
RECURSIVE ReachFrom(_, _)
ReachFrom(S, E) ==
  LET T == S \cup {y \in UNION E : \E x \in S : {x, y} \in E}
  IN IF T = S THEN S ELSE ReachFrom(T, E)

BondInRing(j, bs) ==
  LET E == {{bs[x].begin, bs[x].end} : x \in (1..Len(bs)) \ {j}}
  IN bs[j].end \in ReachFrom({bs[j].begin}, E)

queryAtomRingBondCount(k, bs) ==
  Cardinality({j \in 1..Len(bs) :
                 (bs[j].begin = k - 1 \/ bs[j].end = k - 1) /\ BondInRing(j, bs)})

DataFunc(desc, k, as, bs) ==
  CASE desc \in {"AtomRingBondCount", "AtomRingBondCountLE"} ->
         queryAtomRingBondCount(k, bs)
    [] desc = "AtomAtomicNum" -> as[k].num
    [] desc = "AtomFormalCharge" -> as[k].chg
    [] OTHER -> 0

\* Variant of completeQueryAndChildren that does not descend into the children.
completeQueryAndChildren_NodeOnly(query, k, as, bs, magicVal) ==
  [query EXCEPT
     !.val = IF @ = magicVal THEN DataFunc(query.desc, k, as, bs) ELSE @]

\* completeQueryAndChildren(query, tgt, magicVal)
RECURSIVE completeQueryAndChildren(_, _, _, _, _)
completeQueryAndChildren(query, k, as, bs, magicVal) ==
  [query EXCEPT
     !.val = IF @ = magicVal THEN DataFunc(query.desc, k, as, bs) ELSE @,
     !.kids = [c \in 1..Len(query.kids) |->
                 completeQueryAndChildren(query.kids[c], k, as, bs, magicVal)]]

\* CompleteMolQueries(mol, magicVal)
CompleteMolQueries(as, bs, magicVal) ==
  [k \in 1..Len(as) |->
     IF as[k].q # NoQuery
       THEN [as[k] EXCEPT !.q = completeQueryAndChildren(@, k, as, bs, magicVal)]
       ELSE as[k]]

\* if(res->hasProp("_NeedsQueryScan")){ clearProp; CompleteMolQueries(res); }
\* return res;
ReturnMol ==
  /\ pc = "queries"
  /\ IF needsScan
       THEN /\ needsScan' = FALSE
            /\ atoms' = CompleteMolQueries(atoms, bonds, MAGIC)
            /\ calls' = Append(calls, "CompleteMolQueries")
       ELSE UNCHANGED <<needsScan, atoms, calls>>
  /\ res' = "returned" /\ pc' = "returned"
  /\ UNCHANGED <<exc, eof, line, reads, delivered, fixedVars, resDeletes, conf, confDeletes,
                 leaked, countVars, bonds, bookmarks, confPos, localVars, h>>

\* ---------------------------------------------------------------- the run
Next ==
  \/ ReadName \/ ReadInfoAndComments \/ ReadCountsLine \/ Dispatch
  \/ ParseMolBlockAtoms \/ AttachConformer \/ ParseMolBlockBonds \/ EndBondBlock
  \/ ParseMolBlockProperties
  \/ V3Segment \/ V3BeginCtab \/ V3Counts \/ V3BeginAtom \/ V3Atom \/ V3EndAtom
  \/ V3BeginBond \/ V3Bond \/ V3EndBond
  \/ V3BeginSgroup \/ V3SkipSgroup \/ V3BeginObj3d \/ V3Obj3d
  \/ V3Tail \/ V3SkipBlock
  \/ CheckFileComplete \/ SanitizePhase \/ ReturnMol

Spec == Init /\ [][Next]_vars

\* The parser is single-threaded and synchronous: a call that has a next step
\* takes it.  The caller's flags are read after the parse only (lines
\* 1795-1808), where no loop runs, and removeHs only when sanitize is set: the
\* runs followed are those without the sanitize branch and those that take it
\* with removeHs.
InitFair == Init /\ (removeHs = sanitize)

SpecFair == InitFair /\ [][Next]_vars /\ WF_vars(Next)

\* ------------------------------------------------- the conversion helpers
\* A call of toInt or of stripSpacesAndCast<int> on a field, outside of a
\* parse.
InitConv ==
  /\ pc = "name" /\ exc = "none" /\ eof = FALSE /\ line = 0 /\ reads = 0
  /\ delivered = 0
  /\ sanitize = FALSE /\ removeHs = FALSE
  /\ res = "none" /\ resDeletes = 0 /\ conf = "none" /\ confDeletes = 0
  /\ leaked = {}
  /\ ctabVersion = 2000 /\ nAtoms = 0 /\ nBonds = 0
  /\ nSgroups = 0 /\ n3DConstraints = 0 /\ i = 0
  /\ atoms = <<>> /\ bonds = <<>> /\ bookmarks = <<>> /\ confPos = 0
  /\ needsScan = FALSE
  /\ chiralityPossible = FALSE /\ fileComplete = FALSE
  /\ firstChargeLine = TRUE
  /\ calls = <<>> /\ h = NoHistory
  /\ input \in Fields /\ acceptSpaces \in BOOLEAN /\ called = "none"
  /\ result = NoResult

ConvFrame ==
  UNCHANGED <<pc, exc, eof, line, reads, delivered, flagVars, ownVars,
              frameVars, calls, h, input, acceptSpaces>>

CallToInt ==
  /\ called = "none"
  /\ called' = "toInt" /\ result' = toInt(input, acceptSpaces)
  /\ ConvFrame

CallStripSpacesAndCast ==
  /\ called = "none"
  /\ called' = "stripSpacesAndCast"
  /\ result' = stripSpacesAndCast(input, acceptSpaces)
  /\ ConvFrame

NextConv == CallToInt \/ CallStripSpacesAndCast

SpecConv == InitConv /\ [][NextConv]_vars

\* ------------------------------------------------------- the decoders
\* A call of one decoder on a molecule that earlier lines have built: the
\* atoms and bonds are the molecule before the call, result is what the call
\* leaves.
MaxRecEnt == 2     \* entries carried by the record a decoder is called on

\* The atoms of such a molecule: as ParseMolFileAtomLine leaves them for the
\* symbols C, H and '*', without charge or with charge code 3, and a carbon
\* whose mass-difference field is 1 (lines 740-744).
AtomKinds ==
  {ParseMolFileAtomLine([k |-> "ok", symb |-> sy, chg |-> c]) :
     sy \in {"C", "H", "*"}, c \in {0, 3}}
  \cup {[ParseMolFileAtomLine([k |-> "ok", symb |-> "C", chg |-> c]) EXCEPT
           !.mass = @ + 1000, !.hasMassQuery = TRUE] : c \in {0, 3}}

Molecules == SeqsUpTo(AtomKinds, MaxAtoms) \ {<<>>}

\* The bonds such a molecule can have: none, or single bonds between its atoms.
BondsOf(as) ==
  {<<>>} \cup {<<[begin |-> a, end |-> b, type |-> "SINGLE", dir |-> "NONE",
                  q |-> "none"]>> : a \in 0..(Len(as) - 2), b \in {Len(as) - 1}}

InitDec ==
  /\ pc = "props" /\ exc = "none" /\ eof = FALSE /\ line = 0 /\ reads = 0
  /\ delivered = 0
  /\ sanitize = FALSE /\ removeHs = FALSE
  /\ res = "live" /\ resDeletes = 0 /\ conf = "attached" /\ confDeletes = 0
  /\ leaked = {}
  /\ ctabVersion = 2000 /\ nSgroups = 0 /\ n3DConstraints = 0 /\ i = 0
  /\ atoms \in Molecules /\ bonds \in BondsOf(atoms)
  /\ nAtoms = Len(atoms) /\ nBonds = Len(bonds)
  /\ bookmarks = <<>> /\ confPos = Len(atoms)
  /\ needsScan = FALSE
  /\ chiralityPossible = FALSE /\ fileComplete = FALSE
  /\ firstChargeLine = TRUE
  /\ calls = <<>> /\ h = NoHistory
  /\ input = <<>> /\ acceptSpaces = FALSE /\ called = "none"
  /\ result = NoResult

DecFrame ==
  UNCHANGED <<pc, exc, eof, line, reads, delivered, flagVars, ownVars,
              frameVars, calls, h, acceptSpaces>>

\* The text of an 'M  xxx' record after column 9: the entries side by side,
\* each in two fields of 4 columns.
RECURSIVE RecordFields(_)
RecordFields(ents) ==
  IF ents = <<>> THEN <<>>
  ELSE <<Head(ents)[1], Head(ents)[2]>> \o RecordFields(Tail(ents))

Stopped(as, st, d) == [status |-> st, atoms |-> as, dropped |-> d]

\* ParseUnsaturationLine, the loop of lines 375-404 from entry number
\* nent - left + 1 on: spos is the field at which the entry is read.  spos
\* moves past the atom number (line 380) and nowhere past the value.
RECURSIVE ParseUnsaturationLine(_, _, _, _)
ParseUnsaturationLine(as, flds, spos, left) ==
  IF left = 0 THEN Stopped(as, "ok", {})
  ELSE IF spos > Len(flds) THEN Stopped(as, "FileParse", {})
  ELSE LET aid == flds[spos] IN
       CASE aid \notin 1..Len(as) -> Stopped(as, InvariantViolation, {})
         [] aid \in 1..Len(as) /\ spos + 1 > Len(flds) ->
              ParseUnsaturationLine(as, flds, spos + 1, left - 1)
         [] aid \in 1..Len(as) /\ spos + 1 <= Len(flds) /\ flds[spos + 1] = 0 ->
              ParseUnsaturationLine(as, flds, spos + 1, left - 1)
         [] aid \in 1..Len(as) /\ spos + 1 <= Len(flds) /\ flds[spos + 1] = 1 ->
              ParseUnsaturationLine(
                [as EXCEPT ![aid] =
                   ExpandQuery(replaceAtomWithQueryAtom(as[aid]),
                               Leaf("AtomUnsaturated", 1, FALSE))],
                flds, spos + 1, left - 1)
         [] OTHER -> Stopped(as, "FileParse", {})

\* The explicit-degree query of one 'M  SUB' entry (count # 0); deg is the
\* atom's degree.
SubstitutionCountValues == {-1, -2, 1, 2, 3, 4, 5, 6}
ExplicitDegreeQuery(count, deg) ==
  CASE count = -1 -> Leaf("AtomExplicitDegree", 0, FALSE)
    [] count = -2 -> Leaf("AtomExplicitDegree", deg, FALSE)
    [] OTHER      -> Leaf("AtomExplicitDegree", count, FALSE)

\* ParseSubstitutionCountLine, the loop of lines 316-358.  spos moves past the
\* atom number (line 321) and past the count only at the end of the body
\* (line 350), which 'continue' of line 325 does not reach.  An unsupported
\* count throws with the query of line 326 not released.
RECURSIVE ParseSubstitutionCountLine(_, _, _, _, _)
ParseSubstitutionCountLine(as, bs, flds, spos, left) ==
  IF left = 0 THEN Stopped(as, "ok", {})
  ELSE IF spos > Len(flds) THEN Stopped(as, "FileParse", {})
  ELSE LET aid == flds[spos] IN
       CASE aid \notin 1..Len(as) -> Stopped(as, InvariantViolation, {})
         [] aid \in 1..Len(as) /\ spos + 1 > Len(flds) ->
              ParseSubstitutionCountLine(as, bs, flds, spos + 1, left - 1)
         [] aid \in 1..Len(as) /\ spos + 1 <= Len(flds) /\ flds[spos + 1] = 0 ->
              ParseSubstitutionCountLine(as, bs, flds, spos + 1, left - 1)
         [] aid \in 1..Len(as) /\ spos + 1 <= Len(flds)
            /\ flds[spos + 1] \in SubstitutionCountValues ->
              ParseSubstitutionCountLine(
                [as EXCEPT ![aid] =
                   ExpandQuery(replaceAtomWithQueryAtom(as[aid]),
                               ExplicitDegreeQuery(flds[spos + 1],
                                                   Degree(aid, bs)))],
                bs, flds, spos + 2, left - 1)
         [] OTHER -> Stopped(as, "FileParse", {"AtomQuery"})

\* The records the decoders are called on: up to MaxRecEnt entries, the atom
\* numbers reaching one past the largest molecule.
UnsValues == {0, 1, 2}
SubValues == {-2, 0, 1, 7}
UnsRecords == SeqsUpTo((1..(MaxAtoms + 1)) \X UnsValues, MaxRecEnt)
SubRecords == SeqsUpTo((1..(MaxAtoms + 1)) \X SubValues, MaxRecEnt)

CallParseUnsaturationLine ==
  /\ called = "none"
  /\ \E ents \in UnsRecords :
       /\ input' = ents
       /\ result' = ParseUnsaturationLine(atoms, RecordFields(ents), 1, Len(ents))
  /\ called' = "ParseUnsaturationLine"
  /\ DecFrame

CallParseSubstitutionCountLine ==
  /\ called = "none"
  /\ \E ents \in SubRecords :
       /\ input' = ents
       /\ result' = ParseSubstitutionCountLine(atoms, bonds, RecordFields(ents),
                                               1, Len(ents))
  /\ called' = "ParseSubstitutionCountLine"
  /\ DecFrame

\* mol->replaceAtom(idx, &qa): the atom at idx becomes a copy of qa.
ReplaceAtom(as, idx, qa) == [as EXCEPT ![idx] = qa]

\* replaceAtomWithQueryAtom(mol, mol->getAtomWithIdx(idx - 1))
CallReplaceAtomWithQueryAtom ==
  /\ called = "none"
  /\ \E idx \in 1..Len(atoms) :
       /\ input' = idx
       /\ result' = [status |-> "ok",
                     atoms |-> ReplaceAtom(atoms, idx,
                                           replaceAtomWithQueryAtom(atoms[idx])),
                     bonds |-> bonds]
  /\ called' = "replaceAtomWithQueryAtom"
  /\ DecFrame

\* ParseV3000AtomSymbol(token, negate, line) on a symbol that is not an atom
\* list: the outcomes it can have.  For 'R#' line 1139 calls setAtomicNum on
\* the null pointer res: the behaviour is undefined; the call faults, or,
\* where the store is dropped, POSTCONDITION(res) of line 1153 fails.
ParseV3000AtomSymbol(token, negate) ==
  CASE negate -> {[status |-> "FileParse", atom |-> NewAtom(0)]}
    [] ~negate /\ token = "R#" ->
         {[status |-> "fault", atom |-> NewAtom(0)],
          [status |-> InvariantViolation, atom |-> NewAtom(0)]}
    [] OTHER -> {[status |-> "ok", atom |-> V3000AtomOfSymbol(token)]}

CallParseMolFileAtomLine ==
  /\ called = "none"
  /\ \E symb \in AtomSymbols :
       /\ input' = symb
       /\ result' = [status |-> "ok",
                     atom |-> ParseMolFileAtomLine([k |-> "ok", symb |-> symb,
                                                    chg |-> 0])]
  /\ called' = "ParseMolFileAtomLine"
  /\ DecFrame

CallParseV3000AtomSymbol ==
  /\ called = "none"
  /\ \E token \in AtomSymbols, negate \in BOOLEAN :
       /\ input' = <<token, negate>>
       /\ \E r \in ParseV3000AtomSymbol(token, negate) : result' = r
  /\ called' = "ParseV3000AtomSymbol"
  /\ DecFrame

\* The bond-line alphabets of the two drivers: single and double bonds with
\* every stereo code / CFG value the switches accept.
AllStereoCodes == {0, 1, 3, 4, 6}
AllCfgValues == {0, 1, 2, 3}

\* One pass of the loop of ParseMolBlockBonds on a bond line (lines 989-999):
\* the direction of the bond and whether chiralityPossible is set.
CallParseMolFileBondLine ==
  /\ called = "none"
  /\ \E bType \in {1, 2}, stereo \in AllStereoCodes :
       LET b == ParseMolFileBondLine([k |-> "ok", idx1 |-> 1, idx2 |-> 2,
                                      btype |-> bType, stereo |-> stereo,
                                      topo |-> 0])
       IN /\ input' = <<bType, stereo>>
          /\ result' = [status |-> "ok", dir |-> b.dir,
                        flag |-> BondSetsChirality(b)]
  /\ called' = "ParseMolFileBondLine"
  /\ DecFrame

\* One pass of the loop of ParseV3000BondBlock on a bond line with a CFG
\* property (lines 1455-1477).
CallParseV3000BondLine ==
  /\ called = "none"
  /\ \E bType \in {1, 2}, cfg \in AllCfgValues :
       /\ input' = <<bType, cfg>>
       /\ result' = [status |-> "ok", dir |-> V3000BondDir(bType, cfg),
                     flag |-> CfgSetsChirality(cfg)]
  /\ called' = "ParseV3000BondBlock"
  /\ DecFrame

NextDec ==
  \/ CallParseUnsaturationLine \/ CallParseSubstitutionCountLine
  \/ CallReplaceAtomWithQueryAtom
  \/ CallParseMolFileAtomLine \/ CallParseV3000AtomSymbol
  \/ CallParseMolFileBondLine \/ CallParseV3000BondLine

SpecDec == InitDec /\ [][NextDec]_vars

\* ============================================================ properties
\* The run has ended: a molecule or NULL was returned, or an exception left
\* MolDataStreamToMol.
Failed   == pc = "raised"
Returned == pc = "returned"

\* C1: whenever an exception leaves MolDataStreamToMol after 'new RWMol', the
\* molecule has been deleted (exactly once), and a molecule reaches the caller
\* only without an exception.
C1_FailureDestroysMolecule ==
  /\ (Failed /\ res # "none") => (res = "destroyed" /\ resDeletes = 1)
  /\ res = "returned" => exc = "none"

\* C2: once 'new Conformer' has run, the conformer is never deleted twice, is
\* never deleted after addConformer took it, and when the run has ended it is
\* either attached to the molecule or deleted.
C2_ConformerAttachedOrReleasedOnce ==
  /\ confDeletes <= 1
  /\ conf = "attached" => confDeletes = 0
  /\ ((Failed \/ Returned) /\ h.confMade) => conf \in {"attached", "released"}

\* C3: when a FileParse error leaves a decoder that had created an atom, a
\* bond or a query node it had not yet handed over, none of these objects is
\* left undeleted.
C3_ObjectUnderConstructionReleased ==
  (Failed /\ exc = "FileParse" /\ h.dropIn # "none") => leaked = {}

RECURSIVE HoldsSentinel(_)
HoldsSentinel(q) ==
  q.val = MAGIC \/ \E c \in 1..Len(q.kids) : HoldsSentinel(q.kids[c])

\* C6: no query tree of a returned molecule holds the MAGIC sentinel in any
\* node, and while the molecule is being parsed and post-processed, an applied
\* 'M  RBC' entry with count -2 has left _NeedsQueryScan set.
C6_NoSentinelAfterSuccess ==
  /\ Returned => \A k \in 1..Len(atoms) : ~HoldsSentinel(atoms[k].q)
  /\ (h.magicSeen /\ pc \in {"props", "complete", "sanitize", "queries"})
       => needsScan

C6_Witness ==
  /\ Returned /\ h.magicSeen
  /\ \E k \in 1..Len(atoms) :
       /\ atoms[k].q.op = "and"
       /\ atoms[k].q.kids[2] = Leaf("AtomRingBondCount", 0, FALSE)

\* C7: the charge-reset loop runs at most once in a run, and it has run iff a
\* CHG or RAD record was dispatched; after a property block that held a CHG
\* record, every atom named by a CHG entry has the charge of the last entry
\* naming it and every other atom has charge 0.
C7_SingleResetThenLastEntryWins ==
  /\ h.resetCount <= 1
  /\ h.resetCount = 1 <=> (h.chgSeen \/ h.radSeen)
  /\ (pc \in {"props", "complete"} /\ h.chgSeen) =>
       \A a \in 1..Len(atoms) :
         atoms[a].chg = IF a \in DOMAIN h.lastChg THEN h.lastChg[a] ELSE 0

C7_Witness ==
  /\ pc = "complete" /\ fileComplete
  /\ h.chgSeen /\ h.radSeen /\ DOMAIN h.lastChg # {}
  /\ Len(atoms) = MaxAtoms

\* Sum of the formal charges of the atoms, and of the values of a function.
RECURSIVE TotalCharge(_)
TotalCharge(as) ==
  IF as = <<>> THEN 0 ELSE Head(as).chg + TotalCharge(Tail(as))

RECURSIVE SumOver(_, _)
SumOver(f, S) ==
  IF S = {} THEN 0
  ELSE LET x == CHOOSE y \in S : TRUE IN f[x] + SumOver(f, S \ {x})

C9_ReturnedOnlyAfterMEnd == Returned => h.mEndRead

\* C10 as stated: a '$$$$' line in the property block ends the block without
\* error: no FileParse error follows from it.
C10_DollarsEndBlockWithoutError == h.dollarRead => exc # "FileParse"

\* C10 amended: after a '$$$$' line in the property block no further line is
\* read and no molecule is returned: the run is about to fail on the missing
\* 'M  END', or it has failed with a FileParse error and the molecule deleted.
C10_DollarsEndBlockAndParseFails ==
  h.dollarRead =>
    /\ reads = h.dollarAt
    /\ \/ pc = "complete" /\ ~fileComplete /\ exc = "none" /\ res = "live"
       \/ Failed /\ exc = "FileParse" /\ res = "destroyed" /\ resDeletes = 1

C10_Witness == Failed /\ h.dollarRead /\ h.nprops > 0

\* ---------------------------------------------------------------- C11
\* C11 (as stated): at every point of a parse the increase of the caller's
\* line counter equals the number of physical lines read from the stream.
C11_LineCounterCountsPhysicalLines == line = delivered

\* C11 (amended): the increase of the line counter equals the number of getLine
\* calls made so far; it equals the number of lines the stream held for them
\* as long as the eofbit is clear, and exceeds it by the calls made on the
\* exhausted stream afterwards.
C11_LineCounterCountsGetLineCalls ==
  /\ line = reads
  /\ delivered <= line
  /\ ~eof => delivered = line

\* A parse that failed after the header, having called getLine on a stream
\* that had no line left.
C11_Witness ==
  /\ pc = "raised" /\ eof
  /\ line = reads /\ line > 4 /\ delivered < line

\* ---------------------------------------------------------------- C12
\* C12: end-of-file at the name line gives NULL: nothing is raised and no
\* molecule is allocated.  A molecule is returned only if no getLine call
\* found the stream exhausted: every line up to the one that completes the
\* block was held by the stream, so the eofbit, if set, was set by that line;
\* after such a call the block is never taken as complete.
C12_NullAtNameLineFailureAfterwards ==
  /\ pc = "null" => (eof /\ reads = 1 /\ res = "none" /\ exc = "none"
                     /\ resDeletes = 0)
  /\ Returned => (delivered = reads /\ fileComplete)
  /\ delivered < reads => (~fileComplete /\ pc \notin {"sanitize", "queries"})

\* The stream ran out after the counts line declared atoms, and the parse
\* failed with a FileParse error.
C12_Witness ==
  /\ pc = "raised" /\ exc = "FileParse" /\ eof
  /\ h.declAtoms > 0 /\ delivered < reads

\* ---------------------------------------------------------------- C13
V2000Driver == pc \in {"atoms", "bonds", "propsFirst", "props"}
V3000Driver ==
  pc \in {"v3begin", "v3counts", "v3atomBegin", "v3atoms", "v3bondBegin",
          "v3bonds", "v3sgBegin", "v3sg", "v3objBegin", "v3obj", "v3link",
          "v3blocks", "v3skip"}

\* C13 (as stated): a driver runs only for a counts line whose version field
\* is 'V2000' or 'V3000'; any other content, a line too short to carry the
\* field included, is a fatal error.
C13_DriverOnlyForV2000OrV3000 ==
  (V2000Driver \/ V3000Driver) => h.ver \in {"V2000", "V3000"}

\* C13 (amended): a counts line of at most 35 characters, which has no version
\* field, is dispatched to the V2000 driver like 'V2000'; 'V3000' is
\* dispatched to the V3000 driver; any other text in a longer line is a
\* FileParse error raised after four reads, with the molecule deleted.
C13_VersionFieldSelectsDriver ==
  /\ V2000Driver => (h.ver \in {"V2000", "none"} /\ ctabVersion = 2000)
  /\ V3000Driver => (h.ver = "V3000" /\ ctabVersion = 3000)
  /\ h.ver \in {"invalid", "Vother"} =>
       (pc = "raised" /\ exc = "FileParse" /\ res = "destroyed" /\ reads = 4)

\* The V2000 driver has read an atom of a file whose counts line is too short
\* to carry a version field.
C13_Witness == V2000Driver /\ h.ver = "none" /\ Len(atoms) > 0

\* ---------------------------------------------------------------- C14
CallCount(c) == Cardinality({k \in 1..Len(calls) : calls[k] = c})
CalledBefore(a, b) ==
  \A j \in 1..Len(calls), k \in 1..Len(calls) :
    (calls[j] = a /\ calls[k] = b) => j < k
SanitizeCalls ==
  {"cleanUp", "DetectAtomStereoChemistry", "removeHs", "sanitizeMol",
   "ClearSingleBondDirFlags", "DetectBondStereoChemistry",
   "assignStereochemistry"}
PostParseDone == pc \in {"queries", "returned"}

C15_SameBytesSameSteps ==
  pc \in {"v3sgBegin", "v3sg", "v3objBegin", "v3obj", "v3link", "v3blocks",
          "v3skip"} =>
     h.rerun = <<nSgroups, n3DConstraints>>

\* ---------------------------------------------------------------- C16
V3TailPcs == {"v3link", "v3blocks", "v3skip"}
BlockOpeners ==
  {"BEGIN CTAB", "BEGIN ATOM", "BEGIN BOND", "BEGIN SGROUP", "BEGIN OBJ3D",
   "BEGIN COLLECTION"}

\* A step taken while the tail of the CTAB is read: either reading goes on
\* with the molecule untouched, or a throw is recorded.
UnknownBlockStep ==
  pc \in V3TailPcs =>
    \/ /\ pc' \in V3TailPcs \cup {"complete"}
       /\ atoms' = atoms /\ bonds' = bonds /\ bookmarks' = bookmarks
       /\ needsScan' = needsScan /\ res' = res /\ exc' = exc
    \/ /\ pc' = "raised"
       /\ h'.blockThrow # h.blockThrow \/ h'.tailThrow # h.tailThrow

C17_SgroupBlockSkippedToItsEnd ==
  /\ h.sgLeft \in {"no", "atEnd"}
  /\ h.sgEndSeen => pc # "v3sg"

\* ---------------------------------------------------------------- C18
\* C18: an 'M  RGP' entry whose atom index lies outside 1..nAtoms is rejected
\* with a FileParse error, which the handler of MolDataStreamToMol answers by
\* deleting the molecule.
C18_RgpIndexOutOfRangeIsFileParse ==
  h.rgpOut => (pc = "raised" /\ exc = "FileParse" /\ res = "destroyed")

\* ---------------------------------------------------------------- C19
IsInteger(s) == s # <<>> /\ \A k \in 1..Len(s) : IsDigit(s[k])
AllBlank(s) == \A k \in 1..Len(s) : s[k] = " "

\* C19: toInt fails on every malformed field.  A blank-padded decimal integer
\* gives its value; an all-blank field gives 0 with acceptSpaces and fails
\* without; every other field fails.
C19_ToIntFailsOnMalformedField ==
  called = "toInt" =>
    CASE IsInteger(trim_copy(input)) ->
           result = Returns(Digits(trim_copy(input), 0))
      [] AllBlank(input) /\ acceptSpaces -> result = Returns(0)
      [] OTHER -> result.threw

\* ---------------------------------------------------------------- C20
\* A step of the property block that read an unrecognized record ('M  xxx' not
\* dispatched, 'G ...', 'S  SKP') followed by more input: nothing is raised,
\* the molecule is as before and the block goes on with the next line.
UnrecognizedRecordStep ==
  (pc \in {"propsFirst", "props"} /\ h'.unrecognized /\ ~eof') =>
     /\ pc' = "props" /\ exc' = "none" /\ res' = res
     /\ atoms' = atoms /\ bonds' = bonds /\ needsScan' = needsScan
     /\ confPos' = confPos /\ firstChargeLine' = firstChargeLine

\* C20: in a V2000 property block a record the parser does not recognize is
\* skipped at any position of the block, the first line included.
C20_UnrecognizedRecordsSkipped == [][UnrecognizedRecordStep]_vars

\* ---------------------------------------------------------------- C21
\* What an 'M  UNS' record gives when every entry is decoded from its own
\* columns: value 1 adds the AtomUnsaturated query to the (promoted) atom,
\* value 0 leaves the atom as it is, any other value is a FileParse error.
RECURSIVE UnsaturationByEntry(_, _)
UnsaturationByEntry(as, ents) ==
  IF ents = <<>> THEN [status |-> "ok", atoms |-> as]
  ELSE LET aid == Head(ents)[1]
           val == Head(ents)[2]
       IN CASE val = 0 -> UnsaturationByEntry(as, Tail(ents))
            [] val = 1 ->
                 UnsaturationByEntry(
                   [as EXCEPT ![aid] =
                      ExpandQuery(replaceAtomWithQueryAtom(as[aid]),
                                  Leaf("AtomUnsaturated", 1, FALSE))],
                   Tail(ents))
            [] OTHER -> [status |-> "FileParse", atoms |-> as]

EntriesNameAtoms(ents, as) ==
  \A k \in 1..Len(ents) : ents[k][1] \in 1..Len(as)

\* C21: an 'M  UNS' record with N >= 1 entries that name atoms of the molecule
\* is decoded entry by entry, each from its own columns: the call ends as the
\* entries say (an error exactly when some value is neither 0 nor 1) and, when
\* it succeeds, every atom listed with value 1 has the query added and every
\* other atom is unchanged.
C21_UnsaturationEntriesFromOwnColumns ==
  (called = "ParseUnsaturationLine" /\ Len(input) >= 1
     /\ EntriesNameAtoms(input, atoms)) =>
    LET e == UnsaturationByEntry(atoms, input)
    IN /\ result.status = e.status
       /\ e.status = "ok" => result.atoms = e.atoms

\* ---------------------------------------------------------------- C22
\* What an 'M  SUB' record gives when every entry is decoded from its own
\* columns: count 0 leaves the atom as it is, a supported count adds the
\* explicit-degree query to the (promoted) atom, any other count is an error.
RECURSIVE SubstitutionByEntry(_, _, _)
SubstitutionByEntry(as, bs, ents) ==
  IF ents = <<>> THEN [status |-> "ok", atoms |-> as]
  ELSE LET aid == Head(ents)[1]
           count == Head(ents)[2]
       IN CASE count = 0 -> SubstitutionByEntry(as, bs, Tail(ents))
            [] count \in SubstitutionCountValues ->
                 SubstitutionByEntry(
                   [as EXCEPT ![aid] =
                      ExpandQuery(replaceAtomWithQueryAtom(as[aid]),
                                  ExplicitDegreeQuery(count, Degree(aid, bs)))],
                   bs, Tail(ents))
            [] OTHER -> [status |-> "FileParse", atoms |-> as]

\* C22: in an 'M  SUB' record whose entries name atoms of the molecule, an
\* entry with count 0 is skipped and the entries after it are decoded from
\* their own columns and applied to their own atoms, as if the zero entry were
\* absent.
C22_ZeroCountEntrySkipped ==
  (called = "ParseSubstitutionCountLine" /\ EntriesNameAtoms(input, atoms)
     /\ \E k \in 1..Len(input) : input[k][2] = 0) =>
    LET e == SubstitutionByEntry(atoms, bonds, input)
    IN /\ result.status = e.status
       /\ e.status = "ok" => result.atoms = e.atoms

\* ---------------------------------------------------------------- C23
\* The leaves of a query tree.
RECURSIVE QueryLeaves(_)
QueryLeaves(q) ==
  IF q.op = "leaf" THEN {[desc |-> q.desc, val |-> q.val]}
  ELSE UNION {QueryLeaves(q.kids[c]) : c \in 1..Len(q.kids)}

\* C23: promotion of atom i.  An atom that has a query stays as it is.  Any
\* other atom becomes a query atom with the same atomic number, formal charge
\* and mass (and flags), whose query holds an AtomFormalCharge leaf, of the
\* atom's charge, iff the charge is not 0, and an AtomMass leaf iff the atom is
\* tagged _hasMassQuery.  The number of atoms, every other atom and the bonds
\* are as before.
C23_PromotionKeepsAtomAndSeedsQueries ==
  called = "replaceAtomWithQueryAtom" =>
    LET a == atoms[input]
        r == result.atoms[input]
    IN /\ Len(result.atoms) = Len(atoms)
       /\ \A j \in (1..Len(atoms)) \ {input} : result.atoms[j] = atoms[j]
       /\ result.bonds = bonds
       /\ a.q # NoQuery => r = a
       /\ a.q = NoQuery =>
            /\ r.q # NoQuery
            /\ [r EXCEPT !.q = NoQuery] = a
            /\ ([desc |-> "AtomFormalCharge", val |-> a.chg] \in QueryLeaves(r.q))
                 <=> a.chg # 0
            /\ (\E l \in QueryLeaves(r.q) : l.desc = "AtomFormalCharge")
                 <=> a.chg # 0
            /\ (\E l \in QueryLeaves(r.q) : l.desc = "AtomMass")
                 <=> a.hasMassQuery

\* A charged atom carrying the mass tag was promoted, in a molecule with
\* another atom and a bond.
C23_Witness ==
  /\ called = "replaceAtomWithQueryAtom"
  /\ Len(atoms) = 2 /\ Len(bonds) = 1
  /\ atoms[input].q = NoQuery /\ atoms[input].chg # 0
  /\ atoms[input].hasMassQuery
  /\ result.atoms[input].q # NoQuery

\* ---------------------------------------------------------------- C24
\* C24: for every symbol that is not an atom list, ParseV3000AtomSymbol
\* returns a constructed atom with the atomic number, the query and the
\* no-implicit flag that ParseMolFileAtomLine gives the symbol.
C24_V3000SymbolsAsV2000 ==
  (called = "ParseV3000AtomSymbol" /\ ~input[2]) =>
    LET v2 == ParseMolFileAtomLine([k |-> "ok", symb |-> input[1], chg |-> 0])
    IN /\ result.status = "ok"
       /\ result.atom.num = v2.num
       /\ result.atom.q = v2.q
       /\ result.atom.noImplicit = v2.noImplicit

\* ---------------------------------------------------------------- C27
\* C27: in both drivers a bond line sets chiralityPossible iff it gives the
\* bond the direction BEGINWEDGE or BEGINDASH; an 'either' mark (EITHERDOUBLE,
\* UNKNOWN) sets it in neither.
C27_FlagSetByWedgeOrDashOnly ==
  called \in {"ParseMolFileBondLine", "ParseV3000BondBlock"} =>
    (result.flag <=> result.dir \in {"BEGINWEDGE", "BEGINDASH"})

\* ---------------------------------------------------------------- alias
\* One pass of the property loop that read the line after an 'A  idx' line:
\* the block goes on, the line is stored as molFileAlias of atom idx-1 and
\* nothing else of the molecule or of the loop's state moves; two lines were
\* read by the pass.
AliasPass ==
  (pc \in {"propsFirst", "props"} /\ h'.aliasRead # "none") =>
     /\ pc' = "props"
     /\ h'.aliasText = h'.aliasRead
     /\ h'.aliasAtom \in 1..Len(atoms)
     /\ atoms' = [atoms EXCEPT ![h'.aliasAtom].hasAlias = TRUE]
     /\ bonds' = bonds /\ needsScan' = needsScan
     /\ firstChargeLine' = firstChargeLine
     /\ fileComplete' = fileComplete
     /\ h'.resetCount = h.resetCount
     /\ h'.mEndRead = h.mEndRead /\ h'.dollarRead = h.dollarRead
     /\ reads' = reads + 2

\* C25: the line that follows an 'A xxx' line is consumed as the alias text of
\* atom xxx-1 and never dispatched as a property record, also when it reads
\* 'M  END', '$$$$' or 'M  CHG ...': it does not end the property block and
\* changes nothing of the atoms but molFileAlias.
C25_AliasContinuationConsumed == [][AliasPass]_vars

\* The line 'M  END' was read after an 'A  idx' line and stored as the alias
\* of that atom; the property loop is still running.
C25_Witness ==
  /\ pc = "props" /\ h.aliasRead = "MEND" /\ h.aliasText = "MEND"
  /\ h.aliasAtom \in 1..Len(atoms) /\ atoms[h.aliasAtom].hasAlias

\* ---------------------------------------------------------------- C26
\* The charge leaves of the atoms' queries agree with the atoms' charges.
ChargeLeavesAgree(as) ==
  \A k \in 1..Len(as) :
    \A lf \in QueryLeaves(as[k].q) :
      lf.desc = "AtomFormalCharge" => lf.val = as[k].chg

\* C26: when the property block has ended, every AtomFormalCharge leaf that a
\* promotion seeded holds the formal charge the atom then has, also when a
\* later 'M  CHG' or 'M  RAD' record reset or set the charge.
C26_ChargeLeafAgreesWithFinalCharge ==
  pc = "complete" => ChargeLeavesAgree(atoms)

\* ---------------------------------------------------------------- C28
\* The step that enters the bond block of a CTAB declaring no bond raises no
\* invariant violation.
NoBondsNoAbort ==
  (pc = "v3bondBegin" /\ nBonds = 0 /\ h.declAtoms >= 1) =>
     exc' # InvariantViolation

\* C28: a V3000 CTAB whose COUNTS record declares nBonds = 0 with nAtoms >= 1 is
\* accepted as a V2000 block with 0 bonds is: the driver does not fail or abort
\* because the bond count is zero.
C28_V3000AcceptsZeroBonds == [][NoBondsNoAbort]_vars

\* ---------------------------------------------------------------- C29
\* C29: the optional fields of the COUNTS record default to absent.  Past the
\* bond block, where the driver branches on nSgroups and n3DConstraints, a
\* count whose token the record did not carry is 0: no SGROUP or OBJ3D block is
\* expected for it.
C29_AbsentCountsAreZero ==
  pc \in {"v3sgBegin", "v3sg", "v3objBegin", "v3obj", "v3link", "v3blocks",
          "v3skip"} =>
     /\ h.ntok <= 2 => nSgroups = 0
     /\ h.ntok <= 3 => n3DConstraints = 0

\* ---------------------------------------------------------------- C30
\* The positions at which MolDataStreamToMol reads a line inside a loop: the
\* atom, bond and property loops of the V2000 driver, and every position of
\* the V3000 driver (each reads through the loop of getV3000Line).
LoopPcs ==
  {"atoms", "bonds", "propsFirst", "props", "v3begin", "v3counts",
   "v3atomBegin", "v3atoms", "v3bonds", "v3sgBegin", "v3sg", "v3objBegin",
   "v3obj", "v3link", "v3blocks", "v3skip"}

Done == pc \in {"returned", "raised", "null"}

\* A read made when the stream is exhausted ends the loop it is made in: the
\* property loop is left, every other loop raises.
EofReadEndsLoop ==
  (eof /\ pc \in LoopPcs /\ reads' > reads) =>
     /\ pc' = IF pc \in {"propsFirst", "props"} THEN "complete" ELSE "raised"
     /\ delivered' = delivered

\* C30: on every finite input MolDataStreamToMol terminates: it returns a
\* molecule, returns null or raises.  Each call of getLine gets at most one
\* line of the stream, which no later call gets again, and a read at
\* end-of-file ends the loop that makes it (the property loop, the
\* continuation loop of getV3000Line, the SGROUP, LINKNODE and unknown-block
\* loops) or raises.
C30_Terminates ==
  /\ <>Done
  /\ [](delivered <= reads)
  /\ [][EofReadEndsLoop]_vars

\* A V3000 parse that skipped lines in the loops of the CTAB tail and ended
\* with the raise of a read that found the stream exhausted.
C30_Witness ==
  /\ pc = "raised" /\ exc = "FileParse" /\ eof /\ delivered < reads
  /\ h.ver = "V3000" /\ h.nskip = MaxSkip

====
